---- MODULE Spec2Model ----
(***************************************************************************)
(* FeedWise: feed ingestion and deduplication, the saved-article index,    *)
(* the summary cache, and the relevance scorer of the web client.          *)
(*                                                                         *)
(* The persistence layer is the MongoDB collections behind the Mongoose    *)
(* models Feed, Article, SavedArticle and ArticleSummary; request handlers *)
(* of the feed controller and the article controller act on them.          *)
(* refreshFeed and toggleSavedArticle are modelled at the granularity of   *)
(* their awaits so that two calls can interleave; the other handlers take  *)
(* one step each.  The FeedProvider component holds the client's state.    *)
(***************************************************************************)
EXTENDS Integers, Sequences, FiniteSets, TLC

\* ------------------------------------------------------------------ bounds
\* The clock advances by one with every request received, so MaxTime is also
\* the number of requests of a behaviour.
MaxTime == 3
\* Longest item list a remote feed serves.
MaxItems == 2

\* ------------------------------------------------------------ value spaces
Users == {"A", "B"}
FeedUrls == {"fa", "fb"}
Links == {"l1", "l2"}
Procs == {1, 2}

NoLink == "nolink"
NoDate == -1
BadDate == -2
NoDoc == [none |-> TRUE]

\* A string is a sequence of characters; Blank is a whitespace character and
\* Undefined stands for a property that is absent.
Blank == " "
Undefined == <<"undefined">>

\* A parsed feed item: every property is optional.
RawItem(link, pubDate, title, contentSnippet, content) ==
  [link |-> link, pubDate |-> pubDate, title |-> title,
   contentSnippet |-> contentSnippet, content |-> content]

\* An item titled "x" that carries no text.
Item(link, pubDate) == RawItem(link, pubDate, <<"x">>, Undefined, Undefined)

\* The item lists a remote feed may serve (newest first).
RECURSIVE ListsOfLen(_)
ListsOfLen(n) ==
  IF n = 0 THEN {<<>>}
  ELSE {<<Item(l, NoDate)>> \o rest : l \in Links \cup {NoLink}, rest \in ListsOfLen(n - 1)}

ItemLists == UNION {ListsOfLen(n) : n \in 0..MaxItems}

VARIABLES
  feeds,          \* Feed collection: set of persisted Feed documents
  articles,       \* Article collection: set of persisted Article documents
  now,            \* the clock read by new Date()
  nextFeedId,     \* next ObjectId of the Feed collection
  nextArticleId,  \* next ObjectId of the Article collection
  proc,           \* per request slot: position and locals of the handler
  prev,           \* the previously completed request (history)
  conc,           \* TRUE when requests may overlap
  saved,          \* SavedArticle collection
  summaries,      \* ArticleSummary collection
  nextObjectId,   \* next ObjectId of the SavedArticle and ArticleSummary collections
  provider        \* state of the FeedProvider component of the web client

vars == <<feeds, articles, now, nextFeedId, nextArticleId, proc, prev, conc,
          saved, summaries, nextObjectId, provider>>

\* ------------------------------------------------------------- persistence

\* Paths of feedSchema that the model keeps; a save() writes only these.
FeedSchemaPaths == {"_id", "url", "userId", "lastUpdated", "unreadCount"}

\* Mongoose strict mode: properties that are not schema paths are not stored.
FeedToStore(doc) == [k \in FeedSchemaPaths |-> doc[k]]

\* Feed.findOne({ _id, userId })
FeedFindOne(id, user) == {f \in feeds : f._id = id /\ f.userId = user}

\* Feed.findOne({ url, userId })
FeedFindByUrl(url, user) == {f \in feeds : f.url = url /\ f.userId = user}

\* feedSchema.url is `unique: true`: the unique index spans all owners.
FeedUrlTaken(url) == \E f \in feeds : f.url = url

\* Article.findOne({ url: link, userId }); an undefined link is sent as null
\* and matches no document, url being a required path.
ArticleFindOne(coll, link, user) ==
  {a \in coll : link # NoLink /\ a.url = link /\ a.userId = user}

\* Variant: the collection has no unique index on url.
ArticleUrlTaken_NoIndex(coll, url) == FALSE

\* articleSchema.url is `unique: true`: the unique index spans all owners.
ArticleUrlTaken(coll, url) == \E a \in coll : a.url = url

\* item.link || feed.url
ArticleUrl(item, feedUrl) == IF item.link = NoLink THEN feedUrl ELSE item.link

\* item.pubDate ? new Date(item.pubDate) : new Date()
PublishDate(item, t) == IF item.pubDate = NoDate THEN t ELSE item.pubDate

\* undefined and '' are falsy
Falsy(str) == str = Undefined \/ str = <<>>

\* a || b
OrElse(a, b) == IF Falsy(a) THEN b ELSE a

\* String.prototype.trim
RECURSIVE TrimStart(_)
TrimStart(str) ==
  IF str # <<>> /\ Head(str) = Blank THEN TrimStart(Tail(str)) ELSE str

RECURSIVE TrimEnd(_)
TrimEnd(str) ==
  IF str # <<>> /\ str[Len(str)] = Blank THEN TrimEnd(SubSeq(str, 1, Len(str) - 1)) ELSE str

Trim(str) == TrimEnd(TrimStart(str))

\* The literals 'Article about ', 'No description available' and 'No title'.
ArticleAbout == <<"Article", Blank, "about", Blank>>
NoDescription == <<"No", Blank, "description", Blank, "available">>
NoTitle == <<"No", Blank, "title">>

\* Variant: the fallback is taken only when no text is present at all.
Description_EmptyOnly(item) ==
  LET description == OrElse(OrElse(item.contentSnippet, item.content), <<>>)
  IN Trim(IF Falsy(description)
          THEN (IF Falsy(item.title) THEN NoDescription ELSE ArticleAbout \o item.title)
          ELSE description)

\* let description = item.contentSnippet || item.content || '';
\* if (!description || description.trim() === '')
\*   description = item.title ? `Article about ${item.title}` : 'No description available';
\* description = description.trim()
Description(item) ==
  LET description == OrElse(OrElse(item.contentSnippet, item.content), <<>>)
  IN Trim(IF Falsy(description) \/ Trim(description) = <<>>
          THEN (IF Falsy(item.title) THEN NoDescription ELSE ArticleAbout \o item.title)
          ELSE description)

\* The document built from one feed item (createFeed map / refreshFeed create)
\* as it would be stored: title and description are schema paths with
\* trim: true, so the setter trims them.
NewArticle(id, item, feed, user, t) ==
  [_id |-> id,
   url |-> ArticleUrl(item, feed.url),
   userId |-> user,
   feedId |-> feed._id,
   title |-> Trim(OrElse(item.title, NoTitle)),
   description |-> Trim(Description(item)),
   publishDate |-> PublishDate(item, t),
   isRead |-> FALSE,
   isSaved |-> FALSE]

\* Validation before a document is sent to the database: title and
\* description are required (a string of length 0 is rejected) and an Invalid
\* Date cannot be cast to the path publishDate.  The paths that fail.
InvalidPaths(doc) ==
  {k \in {"title", "description"} : doc[k] = <<>>}
  \cup (IF doc.publishDate = BadDate THEN {"publishDate"} ELSE {})

\* The paths that fail for some document of a batch.
InvalidInBatch(docs) == UNION {InvalidPaths(docs[i]) : i \in 1..Len(docs)}

\* Variant: the batch is written without any duplicate check.
InsertMany_Unchecked(coll, docs) ==
  [coll |-> coll \cup {docs[i] : i \in 1..Len(docs)}, ok |-> TRUE]

\* Article.insertMany(docs), ordered: documents are written in order and the
\* first duplicate key aborts the batch, the documents before it stay.
RECURSIVE InsertMany(_, _)
InsertMany(coll, docs) ==
  IF docs = <<>> THEN [coll |-> coll, ok |-> TRUE]
  ELSE IF ArticleUrlTaken(coll, Head(docs).url) THEN [coll |-> coll, ok |-> FALSE]
  ELSE InsertMany(coll \cup {Head(docs)}, Tail(docs))

\* ---------------------------------------------------------- request slots

Idle ==
  [pc |-> "idle", op |-> "none", user |-> "none", feedId |-> 0, feed |-> NoDoc,
   items |-> <<>>, idx |-> 0, newArticlesCount |-> 0, status |-> 0, reply |-> "none",
   fetch |-> "none", pre |-> NoDoc, created |-> {}, passed |-> {}, fault |-> "none",
   invalid |-> {}, sentences |-> <<>>, keyPoints |-> <<>>,
   article |-> NoDoc, existing |-> {}, invoked |-> FALSE, library |-> "none"]

NoPrev ==
  [op |-> "none", feedId |-> 0, items |-> <<>>,
   articleId |-> 0, wasSaved |-> FALSE, hadRow |-> FALSE]

Snapshot ==
  [feeds |-> feeds, articles |-> articles, saved |-> saved, summaries |-> summaries]

\* A request that has just been received; pre remembers the collections then.
Call(op, user, feedId) ==
  [Idle EXCEPT !.op = op, !.user = user, !.feedId = feedId, !.pre = Snapshot]

\* An awaited call throws; fault remembers what was thrown.
Raise(call, kind) == [call EXCEPT !.fault = kind]

\* Model.create or insertMany rejects with a ValidationError for these paths.
RaiseInvalid(call, paths) == [call EXCEPT !.fault = "validation", !.invalid = paths]

\* res.status(code).json(...): the handler has answered.
Respond(call, code) == [call EXCEPT !.pc = "done", !.status = code]

\* A request arrives at the least idle slot and the clock advances; with
\* conc = FALSE one request runs at a time.
CanReceive(p) ==
  /\ proc[p].pc = "idle"
  /\ \A q \in Procs : q < p => proc[q].pc # "idle"
  /\ conc \/ \A q \in Procs : proc[q].pc = "idle"
  /\ now < MaxTime

Receive(p) == CanReceive(p) /\ now' = now + 1

\* The answer has been delivered; the slot is free again.
Finish(p) ==
  /\ proc[p].pc = "done"
  /\ prev' = IF proc[p].op = "refreshFeed" /\ proc[p].status = 200
              THEN [NoPrev EXCEPT !.op = "refreshFeed", !.feedId = proc[p].feedId,
                                  !.items = proc[p].items]
              ELSE IF proc[p].op = "toggleSavedArticle" /\ proc[p].status = 200
              THEN [NoPrev EXCEPT !.op = "toggleSavedArticle",
                                  !.articleId = proc[p].article._id,
                                  !.wasSaved = ~proc[p].article.isSaved,
                                  !.hadRow = proc[p].existing # {}]
              ELSE NoPrev
  /\ proc' = [proc EXCEPT ![p] = Idle]
  /\ UNCHANGED <<feeds, articles, now, nextFeedId, nextArticleId, conc, saved, summaries, nextObjectId, provider>>

\* ------------------------------------------------------------- createFeed

\* articlesToCreate = feed.items.map(...), ids in item order
ArticlesToCreate(items, feed, user, firstId, t) ==
  [i \in 1..Len(items) |-> NewArticle(firstId + i - 1, items[i], feed, user, t)]

createFeed(p, user, url, parsed) ==
  /\ Receive(p)
  /\ LET call == Call("createFeed", user, 0)
         items == parsed.items
         newFeed == [_id |-> nextFeedId, url |-> url, userId |-> user,
                     lastUpdated |-> now', unreadCount |-> Len(items)]
         docs == ArticlesToCreate(items, newFeed, user, nextArticleId, now')
         ins == InsertMany(articles, docs)
     IN
     IF FeedFindByUrl(url, user) # {} THEN
       /\ proc' = [proc EXCEPT ![p] = Respond(Raise(call, "exists"), 400)]
       /\ UNCHANGED <<feeds, articles, nextFeedId, nextArticleId>>
     ELSE IF ~parsed.ok THEN
       /\ proc' = [proc EXCEPT ![p] = Respond(Raise(call, "parse"), 400)]
       /\ UNCHANGED <<feeds, articles, nextFeedId, nextArticleId>>
     ELSE IF FeedUrlTaken(url) THEN
       \* Feed.create rejected by the unique index on url
       /\ proc' = [proc EXCEPT ![p] = Respond(Raise(call, "feedE11000"), 400)]
       /\ UNCHANGED <<feeds, articles, nextFeedId, nextArticleId>>
     ELSE IF InvalidInBatch(docs) # {} THEN
       \* insertMany validates every document first and sends none when one
       \* fails; the Feed has been created by then
       /\ feeds' = feeds \cup {FeedToStore(newFeed)}
       /\ nextFeedId' = nextFeedId + 1
       /\ proc' = [proc EXCEPT ![p] =
            Respond(RaiseInvalid([call EXCEPT !.feedId = newFeed._id, !.feed = newFeed,
                                              !.items = items],
                                 InvalidInBatch(docs)), 400)]
       /\ UNCHANGED <<articles, nextArticleId>>
     ELSE
       /\ feeds' = feeds \cup {FeedToStore(newFeed)}
       /\ nextFeedId' = nextFeedId + 1
       /\ articles' = ins.coll
       /\ nextArticleId' = nextArticleId + Cardinality(ins.coll) - Cardinality(articles)
       /\ LET started == [call EXCEPT !.feedId = newFeed._id, !.feed = newFeed,
                                      !.items = items,
                                      !.created = {a._id : a \in ins.coll \ articles}]
          IN proc' = [proc EXCEPT ![p] =
                IF ins.ok THEN Respond(started, 201)
                ELSE Respond(Raise(started, "E11000"), 400)]
  /\ UNCHANGED <<prev, conc, saved, summaries, nextObjectId, provider>>

\* ------------------------------------------------------------- deleteFeed

\* Variant: only the Feed document is deleted.
deleteFeed_KeepArticles(p, user, id) ==
  /\ Receive(p)
  /\ feeds' = feeds \ FeedFindOne(id, user)
  /\ prev' = NoPrev
  /\ UNCHANGED <<articles, nextFeedId, nextArticleId, proc, conc, saved, summaries, nextObjectId, provider>>

\* feed = await Feed.findOne({ _id, userId }); if (feed) { await
\* Article.deleteMany({ feedId: feed._id }); await feed.deleteOne() } else 404
deleteFeed(p, user, id) ==
  /\ Receive(p)
  /\ IF FeedFindOne(id, user) = {} THEN
       UNCHANGED <<feeds, articles>>
     ELSE
       /\ articles' = {a \in articles : a.feedId # id}
       /\ feeds' = feeds \ FeedFindOne(id, user)
  /\ prev' = NoPrev
  /\ UNCHANGED <<nextFeedId, nextArticleId, proc, conc, saved, summaries, nextObjectId, provider>>

\* ------------------------------------------------------------- updateFeed

\* Variant: saving the feed also stamps it as updated.
updateFeed_Touch(p, user, id) ==
  /\ Receive(p)
  /\ feeds' = (feeds \ FeedFindOne(id, user))
                 \cup {[f EXCEPT !.lastUpdated = now'] : f \in FeedFindOne(id, user)}
  /\ prev' = NoPrev
  /\ UNCHANGED <<articles, nextFeedId, nextArticleId, proc, conc,
                 saved, summaries, nextObjectId, provider>>

\* if (title) feed.title = title; if (category) ...; if (tags) ...; await feed.save():
\* save() writes the modified paths title, category and tags, none of which
\* is a path the model keeps, so the stored paths stay as they are.
updateFeed(p, user, id) ==
  /\ Receive(p)
  /\ feeds' = (feeds \ FeedFindOne(id, user))
                 \cup {FeedToStore(f) : f \in FeedFindOne(id, user)}
  /\ prev' = NoPrev
  /\ UNCHANGED <<articles, nextFeedId, nextArticleId, proc, conc,
                 saved, summaries, nextObjectId, provider>>

\* ------------------------------------------------------------ refreshFeed

\* Feed.findOne({ _id, userId }); 404 when the caller has no such feed
refreshStart(p, user, id) ==
  /\ Receive(p)
  /\ IF FeedFindOne(id, user) = {} THEN
       /\ prev' = NoPrev
       /\ UNCHANGED proc
     ELSE
       /\ \E f \in FeedFindOne(id, user) :
            proc' = [proc EXCEPT ![p] =
                       [Call("refreshFeed", user, id) EXCEPT !.pc = "parse", !.feed = f]]
       /\ UNCHANGED prev
  /\ UNCHANGED <<feeds, articles, nextFeedId, nextArticleId, conc, saved, summaries, nextObjectId, provider>>

\* Where the for-loop over parsedFeed.items continues after item idx.
AfterItem(call) ==
  IF call.idx < Len(call.items)
  THEN [call EXCEPT !.pc = "find", !.idx = @ + 1]
  ELSE [call EXCEPT !.pc = "save"]

\* Variant: the error is swallowed and the feed update still runs.
RefreshCatch_Continue(call) == [call EXCEPT !.pc = "save"]

\* catch (error) { res.status(400).json({ message: 'Error refreshing feed' }) }
RefreshCatch(call) == Respond(call, 400)

\* parser.parseURL(feed.url): throws when the feed is unreachable or unparsable
refreshParse(p, parsed) ==
  /\ proc[p].pc = "parse"
  /\ LET call == proc[p]
     IN proc' = [proc EXCEPT ![p] =
          IF ~parsed.ok THEN RefreshCatch(Raise(call, "parse"))
          ELSE AfterItem([call EXCEPT !.items = parsed.items, !.idx = 0])]
  /\ UNCHANGED <<feeds, articles, now, nextFeedId, nextArticleId, prev, conc, saved, summaries, nextObjectId, provider>>

\* Variant: an item that matches a stored article refreshes that article.
refreshFind_UpdateOnMatch(p, dbOk) ==
  /\ proc[p].pc = "find"
  /\ LET call == proc[p]
         item == call.items[call.idx]
         found == ArticleFindOne(articles, item.link, call.user)
     IN /\ proc' = [proc EXCEPT ![p] =
             IF ~dbOk THEN RefreshCatch(Raise(call, "db"))
             ELSE IF found # {} THEN AfterItem(call)
             ELSE [call EXCEPT !.pc = "create",
                               !.passed = @ \cup {ArticleUrl(item, call.feed.url)}]]
        /\ articles' = IF dbOk
                       THEN (articles \ found) \cup
                            {[a EXCEPT !.publishDate = PublishDate(item, now),
                                       !.isRead = FALSE] : a \in found}
                       ELSE articles
  /\ UNCHANGED <<feeds, now, nextFeedId, nextArticleId, prev, conc, saved, summaries, nextObjectId, provider>>

\* existingArticle = await Article.findOne({ url: item.link, userId })
refreshFind(p, dbOk) ==
  /\ proc[p].pc = "find"
  /\ LET call == proc[p]
         item == call.items[call.idx]
     IN proc' = [proc EXCEPT ![p] =
          IF ~dbOk THEN RefreshCatch(Raise(call, "db"))
          ELSE IF ArticleFindOne(articles, item.link, call.user) # {} THEN AfterItem(call)
          ELSE [call EXCEPT !.pc = "create",
                            !.passed = @ \cup {ArticleUrl(item, call.feed.url)}]]
  /\ UNCHANGED <<feeds, articles, now, nextFeedId, nextArticleId, prev, conc, saved, summaries, nextObjectId, provider>>

\* Variant: the unread counter is written with every created article.
refreshCreate_CountEagerly(p, dbOk) ==
  /\ proc[p].pc = "create"
  /\ LET call == proc[p]
         doc == NewArticle(nextArticleId, call.items[call.idx], call.feed, call.user, now)
     IN
     IF InvalidPaths(doc) # {} THEN
       /\ proc' = [proc EXCEPT ![p] = RefreshCatch(RaiseInvalid(call, InvalidPaths(doc)))]
       /\ UNCHANGED <<feeds, articles, nextArticleId>>
     ELSE IF ~dbOk THEN
       /\ proc' = [proc EXCEPT ![p] = RefreshCatch(Raise(call, "db"))]
       /\ UNCHANGED <<feeds, articles, nextArticleId>>
     ELSE IF ArticleUrlTaken(articles, doc.url) THEN
       /\ proc' = [proc EXCEPT ![p] = RefreshCatch(Raise(call, "E11000"))]
       /\ UNCHANGED <<feeds, articles, nextArticleId>>
     ELSE
       /\ articles' = articles \cup {doc}
       /\ nextArticleId' = nextArticleId + 1
       /\ feeds' = {IF f._id = call.feed._id THEN [f EXCEPT !.unreadCount = @ + 1] ELSE f :
                      f \in feeds}
       /\ proc' = [proc EXCEPT ![p] = AfterItem([call EXCEPT !.created = @ \cup {doc._id}])]
  /\ UNCHANGED <<now, nextFeedId, prev, conc, saved, summaries, nextObjectId, provider>>

\* await Article.create({...}); newArticlesCount++
refreshCreate(p, dbOk) ==
  /\ proc[p].pc = "create"
  /\ LET call == proc[p]
         doc == NewArticle(nextArticleId, call.items[call.idx], call.feed, call.user, now)
     IN
     IF InvalidPaths(doc) # {} THEN
       \* Article.create rejects the document before it reaches the database
       /\ proc' = [proc EXCEPT ![p] = RefreshCatch(RaiseInvalid(call, InvalidPaths(doc)))]
       /\ UNCHANGED <<articles, nextArticleId>>
     ELSE IF ~dbOk THEN
       /\ proc' = [proc EXCEPT ![p] = RefreshCatch(Raise(call, "db"))]
       /\ UNCHANGED <<articles, nextArticleId>>
     ELSE IF ArticleUrlTaken(articles, doc.url) THEN
       \* rejected by the unique index on url
       /\ proc' = [proc EXCEPT ![p] = RefreshCatch(Raise(call, "E11000"))]
       /\ UNCHANGED <<articles, nextArticleId>>
     ELSE
       /\ articles' = articles \cup {doc}
       /\ nextArticleId' = nextArticleId + 1
       /\ proc' = [proc EXCEPT ![p] =
            AfterItem([call EXCEPT !.newArticlesCount = @ + 1,
                                   !.created = @ \cup {doc._id}])]
  /\ UNCHANGED <<feeds, now, nextFeedId, prev, conc, saved, summaries, nextObjectId, provider>>

\* feed.lastUpdated = new Date(); feed.unreadCount += newArticlesCount;
\* feed.hasNewContent = false; await feed.save(); res.json({ message, feed })
refreshSave(p, dbOk) ==
  /\ proc[p].pc = "save"
  /\ LET call == proc[p]
         doc == [_id |-> call.feed._id, url |-> call.feed.url, userId |-> call.feed.userId,
                 lastUpdated |-> now,
                 unreadCount |-> call.feed.unreadCount + call.newArticlesCount,
                 hasNewContent |-> FALSE]
         stored == {f \in feeds : f._id = doc._id}
     IN
     IF ~dbOk THEN
       /\ proc' = [proc EXCEPT ![p] = RefreshCatch(Raise(call, "db"))]
       /\ UNCHANGED feeds
     ELSE IF stored = {} THEN
       \* the document was deleted meanwhile: save() finds nothing to update
       /\ proc' = [proc EXCEPT ![p] = RefreshCatch(Raise(call, "gone"))]
       /\ UNCHANGED feeds
     ELSE
       \* save() writes the modified schema paths: lastUpdated, and unreadCount
       \* when the assignment changed its value
       /\ feeds' = (feeds \ stored) \cup
                   {FeedToStore([doc EXCEPT !.unreadCount =
                                   IF call.newArticlesCount # 0 THEN @ ELSE f.unreadCount]) :
                      f \in stored}
       /\ proc' = [proc EXCEPT ![p] = Respond([call EXCEPT !.feed = doc], 200)]
  /\ UNCHANGED <<articles, now, nextFeedId, nextArticleId, prev, conc, saved, summaries, nextObjectId, provider>>

\* ---------------------------------------------------- article controller

\* Article.findOne({ _id, userId })
ArticleFindById(id, user) == {a \in articles : a._id = id /\ a.userId = user}

markArticleAsRead(p, user, id) ==
  /\ Receive(p)
  /\ IF ArticleFindById(id, user) = {} THEN
       UNCHANGED <<feeds, articles>>
     ELSE
       \E a \in ArticleFindById(id, user) :
         /\ feeds' = IF ~a.isRead
                     THEN {IF f._id = a.feedId /\ f.unreadCount > 0
                           THEN [f EXCEPT !.unreadCount = @ - 1] ELSE f : f \in feeds}
                     ELSE feeds
         /\ articles' = (articles \ {a}) \cup {[a EXCEPT !.isRead = TRUE]}
  /\ prev' = NoPrev
  /\ UNCHANGED <<nextFeedId, nextArticleId, proc, conc, saved, summaries, nextObjectId, provider>>

markArticleAsUnread(p, user, id) ==
  /\ Receive(p)
  /\ IF ArticleFindById(id, user) = {} THEN
       UNCHANGED <<feeds, articles>>
     ELSE
       \E a \in ArticleFindById(id, user) :
         /\ feeds' = IF a.isRead
                     THEN {IF f._id = a.feedId
                           THEN [f EXCEPT !.unreadCount = @ + 1] ELSE f : f \in feeds}
                     ELSE feeds
         /\ articles' = (articles \ {a}) \cup {[a EXCEPT !.isRead = FALSE]}
  /\ prev' = NoPrev
  /\ UNCHANGED <<nextFeedId, nextArticleId, proc, conc, saved, summaries, nextObjectId, provider>>

\* article.tags = tags; await article.save(): only the path tags is written,
\* which the model does not keep; the Feed is not loaded.
updateArticleTags(p, user, id) ==
  /\ Receive(p)
  /\ prev' = NoPrev
  /\ UNCHANGED <<feeds, articles, nextFeedId, nextArticleId, proc, conc,
                 saved, summaries, nextObjectId, provider>>

\* ----------------------------------------------------- toggleSavedArticle

\* SavedArticle.findOne({ articleId, userId })
SavedFindOne(articleId, user) ==
  {s \in saved : s.articleId = articleId /\ s.userId = user}

\* savedArticleSchema.index({ userId: 1, articleId: 1 }, { unique: true })
SavedPairTaken(articleId, user) == SavedFindOne(articleId, user) # {}

\* The document SavedArticle.create({ articleId, userId, savedAt }) stores.
NewSavedArticle(id, articleId, user, t) ==
  [_id |-> id, articleId |-> articleId, userId |-> user, savedAt |-> t]

\* A throw in a handler wrapped by asyncHandler reaches the error middleware,
\* which answers 500 unless an ApiError names another status.
ApiCatch(call) == Respond(call, 500)

\* Article.findOne({ _id, userId }); 404 when the caller has no such article
toggleStart(p, user, id) ==
  /\ Receive(p)
  /\ IF ArticleFindById(id, user) = {} THEN
       /\ prev' = NoPrev
       /\ UNCHANGED proc
     ELSE
       /\ \E a \in ArticleFindById(id, user) :
            proc' = [proc EXCEPT ![p] =
                       [Call("toggleSavedArticle", user, a.feedId)
                          EXCEPT !.pc = "lookup", !.article = a]]
       /\ UNCHANGED prev
  /\ UNCHANGED <<feeds, articles, nextFeedId, nextArticleId, conc,
                 saved, summaries, nextObjectId, provider>>

\* existingSavedArticle = await SavedArticle.findOne({ articleId, userId })
toggleLookup(p, dbOk) ==
  /\ proc[p].pc = "lookup"
  /\ LET call == proc[p]
     IN proc' = [proc EXCEPT ![p] =
          IF ~dbOk THEN ApiCatch(Raise(call, "db"))
          ELSE [call EXCEPT !.pc = "flag",
                            !.existing = SavedFindOne(call.article._id, call.user)]]
  /\ UNCHANGED <<feeds, articles, now, nextFeedId, nextArticleId, prev, conc,
                 saved, summaries, nextObjectId, provider>>

\* Where the handler continues after article.save(): the index is written
\* when the row found earlier does not fit the new flag, else it answers.
AfterFlag(call) ==
  IF (call.article.isSaved /\ call.existing = {}) \/ (~call.article.isSaved /\ call.existing # {})
  THEN [call EXCEPT !.pc = "index"]
  ELSE Respond(call, 200)

\* wasSaved = article.isSaved; article.isSaved = !wasSaved; await article.save():
\* save() writes the modified path isSaved of the stored document.
toggleFlag(p, dbOk) ==
  /\ proc[p].pc = "flag"
  /\ LET call == proc[p]
         doc == [call.article EXCEPT !.isSaved = ~call.article.isSaved]
         stored == {a \in articles : a._id = doc._id}
     IN
     IF ~dbOk THEN
       /\ proc' = [proc EXCEPT ![p] = ApiCatch(Raise(call, "db"))]
       /\ UNCHANGED articles
     ELSE IF stored = {} THEN
       \* the document was deleted meanwhile: save() finds nothing to update
       /\ proc' = [proc EXCEPT ![p] = ApiCatch(Raise(call, "gone"))]
       /\ UNCHANGED articles
     ELSE
       /\ articles' = (articles \ stored) \cup {[a EXCEPT !.isSaved = doc.isSaved] : a \in stored}
       /\ proc' = [proc EXCEPT ![p] = AfterFlag([call EXCEPT !.article = doc])]
  /\ UNCHANGED <<feeds, now, nextFeedId, nextArticleId, prev, conc,
                 saved, summaries, nextObjectId, provider>>

\* Variant: unsaving leaves the SavedArticle row in place.
toggleIndex_KeepRow(p, dbOk) ==
  /\ proc[p].pc = "index"
  /\ LET call == proc[p]
     IN
     IF ~dbOk THEN
       /\ proc' = [proc EXCEPT ![p] = ApiCatch(Raise(call, "db"))]
       /\ UNCHANGED <<saved, nextObjectId>>
     ELSE IF call.article.isSaved /\ SavedPairTaken(call.article._id, call.user) THEN
       /\ proc' = [proc EXCEPT ![p] = ApiCatch(Raise(call, "E11000"))]
       /\ UNCHANGED <<saved, nextObjectId>>
     ELSE IF call.article.isSaved THEN
       /\ saved' = saved \cup {NewSavedArticle(nextObjectId, call.article._id, call.user, now)}
       /\ nextObjectId' = nextObjectId + 1
       /\ proc' = [proc EXCEPT ![p] = Respond(call, 200)]
     ELSE
       /\ proc' = [proc EXCEPT ![p] = Respond(call, 200)]
       /\ UNCHANGED <<saved, nextObjectId>>
  /\ UNCHANGED <<feeds, articles, now, nextFeedId, nextArticleId, prev, conc,
                 summaries, provider>>

\* if (!wasSaved) { if (!existingSavedArticle) await SavedArticle.create(...) }
\* else { if (existingSavedArticle) await SavedArticle.deleteOne(...) }; res.json(article)
toggleIndex(p, dbOk) ==
  /\ proc[p].pc = "index"
  /\ LET call == proc[p]
     IN
     IF ~dbOk THEN
       /\ proc' = [proc EXCEPT ![p] = ApiCatch(Raise(call, "db"))]
       /\ UNCHANGED <<saved, nextObjectId>>
     ELSE IF call.article.isSaved /\ SavedPairTaken(call.article._id, call.user) THEN
       \* SavedArticle.create rejected by the unique index
       /\ proc' = [proc EXCEPT ![p] = ApiCatch(Raise(call, "E11000"))]
       /\ UNCHANGED <<saved, nextObjectId>>
     ELSE IF call.article.isSaved THEN
       /\ saved' = saved \cup {NewSavedArticle(nextObjectId, call.article._id, call.user, now)}
       /\ nextObjectId' = nextObjectId + 1
       /\ proc' = [proc EXCEPT ![p] = Respond(call, 200)]
     ELSE
       /\ saved' = saved \ SavedFindOne(call.article._id, call.user)
       /\ proc' = [proc EXCEPT ![p] = Respond(call, 200)]
       /\ UNCHANGED nextObjectId
  /\ UNCHANGED <<feeds, articles, now, nextFeedId, nextArticleId, prev, conc,
                 summaries, provider>>

\* ------------------------------------------------------ getArticleSummary

Throw == "throw"

\* The stored description of an article, by its length: the item at "l1" is a
\* short note (under 200 characters), every other item a long text.
DescriptionOf(a) == IF a.url = "l1" THEN "short" ELSE "long"

\* Short content is returned at once; else the summarizer library runs, and
\* it may throw.
generateEnhancedSummary(content, libOk) ==
  IF content = "short" THEN "brief"
  ELSE IF libOk THEN "enhanced"
  ELSE Throw

\* The local summarizer: string operations only, nothing awaited or thrown.
generateLocalSummary(content) == IF content = "short" THEN "brief" ELSE "local"

\* Variant: the error of the library is passed on to the caller.
generateArticleSummary_Rethrow(content, libOk) == generateEnhancedSummary(content, libOk)

\* try { return await generateEnhancedSummary(...) } catch { return generateLocalSummary(...) }
generateArticleSummary(content, libOk) ==
  IF generateEnhancedSummary(content, libOk) = Throw
  THEN generateLocalSummary(content)
  ELSE generateEnhancedSummary(content, libOk)

\* ArticleSummary.findOne({ articleId, userId })
SummaryFindOne(articleId, user) ==
  {s \in summaries : s.articleId = articleId /\ s.userId = user}

\* articleSummarySchema.index({ userId: 1, articleId: 1 }, { unique: true })
SummaryPairTaken(articleId, user) == SummaryFindOne(articleId, user) # {}

\* The document ArticleSummary.create({ articleId, userId, summary }) stores.
NewArticleSummary(id, articleId, user, summary) ==
  [_id |-> id, articleId |-> articleId, userId |-> user, summary |-> summary]

\* catch (error) { ... throw new ApiError(500, 'Failed to generate article summary with AI') }
\* (no code throws OpenAIQuotaExceededError, so the 429 answer is never given)
SummaryCatch(call) == Respond(call, 500)

\* Variant: the summary is generated and stored without looking for a row.
getArticleSummary_NoCache(p, user, id, libOk, dbOk) ==
  /\ Receive(p)
  /\ IF ArticleFindById(id, user) = {} THEN
       /\ prev' = NoPrev
       /\ UNCHANGED <<proc, summaries, nextObjectId>>
     ELSE
       \E a \in ArticleFindById(id, user) :
         LET call == [Call("getArticleSummary", user, a.feedId)
                        EXCEPT !.article = a, !.library = IF libOk THEN "ok" ELSE "fails",
                               !.invoked = TRUE]
             summary == generateArticleSummary(DescriptionOf(a), libOk)
         IN
         /\ UNCHANGED prev
         /\ IF summary = Throw \/ ~dbOk \/ SummaryPairTaken(a._id, user) THEN
              /\ proc' = [proc EXCEPT ![p] = SummaryCatch(Raise(call, "db"))]
              /\ UNCHANGED <<summaries, nextObjectId>>
            ELSE
              /\ summaries' = summaries \cup {NewArticleSummary(nextObjectId, a._id, user, summary)}
              /\ nextObjectId' = nextObjectId + 1
              /\ proc' = [proc EXCEPT ![p] = [Respond(call, 200) EXCEPT !.reply = summary]]
  /\ UNCHANGED <<feeds, articles, nextFeedId, nextArticleId, conc, saved, provider>>

\* libOk: whether the summarizer library works when it is called;
\* dbOk: whether ArticleSummary.create reaches the database.
getArticleSummary(p, user, id, libOk, dbOk) ==
  /\ Receive(p)
  /\ IF ArticleFindById(id, user) = {} THEN
       \* throw new ApiError(404, 'Article not found')
       /\ prev' = NoPrev
       /\ UNCHANGED <<proc, summaries, nextObjectId>>
     ELSE
       \E a \in ArticleFindById(id, user) :
         LET call == [Call("getArticleSummary", user, a.feedId)
                        EXCEPT !.article = a, !.library = IF libOk THEN "ok" ELSE "fails",
                               !.existing = SummaryFindOne(a._id, user)]
             generating == [call EXCEPT !.invoked = TRUE]
             summary == generateArticleSummary(DescriptionOf(a), libOk)
         IN
         /\ UNCHANGED prev
         /\ IF call.existing # {} THEN
              \* res.json(existingSummary)
              /\ \E row \in call.existing :
                   proc' = [proc EXCEPT ![p] = [Respond(call, 200) EXCEPT !.reply = row.summary]]
              /\ UNCHANGED <<summaries, nextObjectId>>
            ELSE IF summary = Throw THEN
              /\ proc' = [proc EXCEPT ![p] = SummaryCatch(Raise(generating, "summarizer"))]
              /\ UNCHANGED <<summaries, nextObjectId>>
            ELSE IF ~dbOk THEN
              /\ proc' = [proc EXCEPT ![p] = SummaryCatch(Raise(generating, "db"))]
              /\ UNCHANGED <<summaries, nextObjectId>>
            ELSE IF SummaryPairTaken(a._id, user) THEN
              /\ proc' = [proc EXCEPT ![p] = SummaryCatch(Raise(generating, "E11000"))]
              /\ UNCHANGED <<summaries, nextObjectId>>
            ELSE
              /\ summaries' = summaries \cup {NewArticleSummary(nextObjectId, a._id, user, summary)}
              /\ nextObjectId' = nextObjectId + 1
              /\ proc' = [proc EXCEPT ![p] = [Respond(generating, 200) EXCEPT !.reply = summary]]
  /\ UNCHANGED <<feeds, articles, nextFeedId, nextArticleId, conc, saved, provider>>

\* ------------------------------------------- key points of the local summary

\* A sentence of the normalized content: text names it, length is its number
\* of characters and points is what the searches of its text add to the
\* score (title keywords, summary phrases, a question mark, info density).
Sentence(text, length, points) == [text |-> text, length |-> length, points |-> points]

\* index === 0 || index === sentences.length - 1 ? 3 : index < sentences.length / 3 ? 2 : 1
PositionScore(index, n) ==
  IF index = 0 \/ index = n - 1 THEN 3
  ELSE IF 3 * index < n THEN 2
  ELSE 1

\* length > 60 && length < 200 ? 3 : length > 40 && length <= 60 ? 2 : 1
LengthScore(length) ==
  IF length > 60 /\ length < 200 THEN 3
  ELSE IF length > 40 /\ length <= 60 THEN 2
  ELSE 1

\* sentences.map((sentence, index) => ({ sentence, score, index }))
ScoredSentences(sentences) ==
  [i \in 1..Len(sentences) |->
     [sentence |-> sentences[i],
      score |-> PositionScore(i - 1, Len(sentences)) + LengthScore(sentences[i].length)
                + sentences[i].points,
      index |-> i - 1]]

\* scoredSentences.sort((a, b) => b.score - a.score): a stable sort, equal
\* scores stay in document order.
RECURSIVE InsertByScore(_, _)
InsertByScore(x, sorted) ==
  IF sorted = <<>> THEN <<x>>
  ELSE IF Head(sorted).score < x.score THEN <<x>> \o sorted
  ELSE <<Head(sorted)>> \o InsertByScore(x, Tail(sorted))

RECURSIVE SortByScore(_)
SortByScore(list) ==
  IF list = <<>> THEN <<>>
  ELSE InsertByScore(list[Len(list)], SortByScore(SubSeq(list, 1, Len(list) - 1)))

\* .sort((a, b) => a.index - b.index)
RECURSIVE InsertByIndex(_, _)
InsertByIndex(x, sorted) ==
  IF sorted = <<>> THEN <<x>>
  ELSE IF x.index < Head(sorted).index THEN <<x>> \o sorted
  ELSE <<Head(sorted)>> \o InsertByIndex(x, Tail(sorted))

RECURSIVE SortByIndex(_)
SortByIndex(list) ==
  IF list = <<>> THEN <<>>
  ELSE InsertByIndex(list[Len(list)], SortByIndex(SubSeq(list, 1, Len(list) - 1)))

\* .slice(0, count)
TopN(list, count) == SubSeq(list, 1, IF Len(list) < count THEN Len(list) ELSE count)

\* Variant: the chosen sentences are returned in the order of their scores.
findImportantSentences_ByScore(sentences, count) ==
  LET top == TopN(SortByScore(ScoredSentences(sentences)), count)
  IN [k \in 1..Len(top) |-> top[k].sentence]

\* Score, sort by score descending, take the first count, sort them by their
\* original position, return the sentences.
findImportantSentences(sentences, count) ==
  LET top == SortByIndex(TopN(SortByScore(ScoredSentences(sentences)), count))
  IN [k \in 1..Len(top) |-> top[k].sentence]

\* findImportantSentences(sentences, title, 5)
KeyPoints == 5

\* if (sentences.length <= 4) all sentences are listed, else the important
\* ones; the step of generateLocalSummary that lists the key points.
localKeyPoints(p) ==
  /\ proc[p].pc = "keypoints"
  /\ proc' = [proc EXCEPT ![p] =
       [Respond(proc[p], 200) EXCEPT !.keyPoints =
          IF Len(proc[p].sentences) <= 4 THEN proc[p].sentences
          ELSE findImportantSentences(proc[p].sentences, KeyPoints)]]
  /\ UNCHANGED <<feeds, articles, now, nextFeedId, nextArticleId, prev, conc,
                 saved, summaries, nextObjectId, provider>>

\* ---------------------------------------------------- checkNewFeedContent

\* parsedFeed.items.slice(0, 5)
ItemsToCheck == 5

Slice(items, n) == SubSeq(items, 1, IF Len(items) < n THEN Len(items) ELSE n)

\* Variant: an item dated exactly at the last update counts as newer.
ItemDateIsNewer_OrEqual(item, lastUpdated) ==
  /\ item.pubDate \notin {NoDate, BadDate}
  /\ item.pubDate >= lastUpdated

\* mostRecentItem.pubDate && new Date(mostRecentItem.pubDate) > new Date(feed.lastUpdated);
\* an unparsable pubDate gives an Invalid Date, which compares false.
ItemDateIsNewer(item, lastUpdated) ==
  /\ item.pubDate \notin {NoDate, BadDate}
  /\ item.pubDate > lastUpdated

\* Article.findOne({ url: item.link, feedId: feed._id, userId })
ArticleFindInFeed(link, feedId, user) ==
  {a \in articles : a.url = link /\ a.feedId = feedId /\ a.userId = user}

\* for (const item of itemsToCheck): items without link are skipped, the first
\* link with no article ends the loop; a failing lookup throws.
RECURSIVE ScanItems(_, _, _, _)
ScanItems(items, feedId, user, lookupOk) ==
  IF items = <<>> THEN "false"
  ELSE IF Head(items).link = NoLink THEN ScanItems(Tail(items), feedId, user, lookupOk)
  ELSE IF ~lookupOk THEN "throw"
  ELSE IF ArticleFindInFeed(Head(items).link, feedId, user) = {} THEN "true"
  ELSE ScanItems(Tail(items), feedId, user, lookupOk)

\* The value of hasNewContent after the two checks, or "throw".
ProbeItems(items, feed, user, lookupOk) ==
  IF Len(items) > 0 /\ ItemDateIsNewer(items[1], feed.lastUpdated) THEN "true"
  ELSE ScanItems(Slice(items, ItemsToCheck), feed._id, user, lookupOk)

\* Variant: a failed probe reports that nothing is new.
ProbeCatch_FailClosed(call) == [Respond(call, 200) EXCEPT !.reply = "false"]

\* catch (error) { res.json({ hasNewContent: true }) }
ProbeCatch(call) == [Respond(call, 200) EXCEPT !.reply = "true"]

\* res.json({ hasNewContent })
ProbeAnswer(call, value) == [Respond(call, 200) EXCEPT !.reply = value]

\* fetch is what axios.get does: "200", "304", "status" for a status that
\* validateStatus rejects, "error" for a network failure.
checkNewFeedContent(p, user, id, fetch, parsed, lookupOk) ==
  /\ Receive(p)
  /\ IF FeedFindOne(id, user) = {} THEN
       /\ prev' = NoPrev
       /\ UNCHANGED proc
     ELSE
       /\ \E f \in FeedFindOne(id, user) :
            LET call == [Call("checkNewFeedContent", user, id) EXCEPT !.feed = f, !.fetch = fetch]
                parsedCall == [call EXCEPT !.items = parsed.items]
                value == ProbeItems(parsed.items, f, user, lookupOk)
            IN proc' = [proc EXCEPT ![p] =
                 IF fetch \in {"error", "status"} THEN ProbeCatch(Raise(call, fetch))
                 ELSE IF fetch = "304" THEN ProbeAnswer(call, "false")
                 ELSE IF ~parsed.ok THEN ProbeCatch(Raise(call, "parse"))
                 ELSE IF value = "throw" THEN ProbeCatch(Raise(parsedCall, "db"))
                 ELSE ProbeAnswer(parsedCall, value)]
       /\ UNCHANGED prev
  /\ UNCHANGED <<feeds, articles, nextFeedId, nextArticleId, conc, saved, summaries, nextObjectId, provider>>

\* ------------------------------------------------- FeedProvider (web client)
\* Scores are counted in hundredths (0.25 is 25); the clock ticks twice a day.

\* 1000 * 3600 * 24 milliseconds, in ticks
DayTicks == 2

\* The time new Date() gives in the browser.
ClientNow == 20

TagNames == {"t1", "t2", "t3", "t4", "t5"}

\* article.tags is optional; an article without the property carries NoTags.
NoTags == {"undefined"}

\* relevanceScore of an article that has none (undefined).
NoScore == -1

\* An Article as the client holds it.
ClientArticle(id, tags, publishDate, isRead, isSaved, score) ==
  [_id |-> id, tags |-> tags, publishDate |-> publishDate,
   isRead |-> isRead, isSaved |-> isSaved, relevanceScore |-> score]

\* userTags.forEach(userTag => { if (article.tags?.includes(userTag.name)) relevanceScore += 0.25 })
RECURSIVE TagPoints(_, _)
TagPoints(userTags, articleTags) ==
  IF userTags = <<>> THEN 0
  ELSE (IF Head(userTags) \in articleTags THEN 25 ELSE 0) + TagPoints(Tail(userTags), articleTags)

\* Variant: the bonus steps include their upper day.
RecencyBonus_Inclusive(publishDate, t) ==
  IF publishDate = BadDate THEN 0
  ELSE LET daysDifference == (t - publishDate) \div DayTicks
       IN IF daysDifference <= 1 THEN 30
          ELSE IF daysDifference <= 3 THEN 20
          ELSE IF daysDifference <= 7 THEN 10
          ELSE 0

\* daysDifference = Math.floor((now - articleDate) / day); an Invalid Date
\* gives NaN, which is below no bound.
RecencyBonus(publishDate, t) ==
  IF publishDate = BadDate THEN 0
  ELSE LET daysDifference == (t - publishDate) \div DayTicks
       IN IF daysDifference < 1 THEN 30
          ELSE IF daysDifference < 3 THEN 20
          ELSE IF daysDifference < 7 THEN 10
          ELSE 0

\* Variant: the score is returned as summed.
Clamp_Unbounded(x) == x

\* Math.min(Math.max(relevanceScore, 0), 1)
Clamp(x) == IF x < 0 THEN 0 ELSE IF x > 100 THEN 100 ELSE x

\* The body of the map callback: the score of one article.
RelevanceScore(article, userTags, t) ==
  Clamp((IF article.tags # NoTags /\ Len(userTags) > 0
         THEN TagPoints(userTags, article.tags) ELSE 0)
        + RecencyBonus(article.publishDate, t)
        - (IF article.isRead THEN 20 ELSE 0)
        + (IF article.isSaved THEN 10 ELSE 0))

\* articlesToScore.map(article => ({ ...article, relevanceScore }))
calculateRelevanceScores(articlesToScore, userTags, t) ==
  [i \in 1..Len(articlesToScore) |->
     [articlesToScore[i] EXCEPT !.relevanceScore = RelevanceScore(articlesToScore[i], userTags, t)]]

\* b.relevanceScore || 0
ScoreOrZero(a) == IF a.relevanceScore = NoScore THEN 0 ELSE a.relevanceScore

Abs(x) == IF x < 0 THEN -x ELSE x

\* Variant: a gap of exactly 0.3 already decides by score.
CompareFn_AtLeast(a, b) ==
  LET relevanceDiff == ScoreOrZero(b) - ScoreOrZero(a)
  IN IF Abs(relevanceDiff) >= 30 THEN relevanceDiff
     ELSE IF a.publishDate = BadDate \/ b.publishDate = BadDate THEN 0
     ELSE b.publishDate - a.publishDate

\* The comparator of filtered.sort: negative puts a first.  With an Invalid
\* Date the difference of times is NaN, which sort takes as 0.
CompareFn(a, b) ==
  LET relevanceDiff == ScoreOrZero(b) - ScoreOrZero(a)
  IN IF Abs(relevanceDiff) > 30 THEN relevanceDiff
     ELSE IF a.publishDate = BadDate \/ b.publishDate = BadDate THEN 0
     ELSE b.publishDate - a.publishDate

\* Array.prototype.sort as a stable insertion sort.
RECURSIVE InsertSorted(_, _)
InsertSorted(x, sorted) ==
  IF sorted = <<>> THEN <<x>>
  ELSE IF CompareFn(x, Head(sorted)) < 0 THEN <<x>> \o sorted
  ELSE <<Head(sorted)>> \o InsertSorted(x, Tail(sorted))

RECURSIVE SortArticles(_)
SortArticles(list) ==
  IF list = <<>> THEN <<>>
  ELSE InsertSorted(list[Len(list)], SortArticles(SubSeq(list, 1, Len(list) - 1)))

\* The variables the client leaves alone.
server == <<feeds, articles, now, nextFeedId, nextArticleId, proc, prev, conc,
            saved, summaries, nextObjectId>>

\* The scorer applied to the working set with the current tags.
ApplyScorer ==
  /\ provider.pending = "changed"
  /\ provider' = [provider EXCEPT
                    !.articles = calculateRelevanceScores(provider.articles, provider.tags, now),
                    !.pending = "rescored", !.ref = 1 - @]
  /\ UNCHANGED server

\* filteredArticles = useMemo(() => [...articles].sort(compare), [articles, searchQuery])
filteredArticles ==
  /\ provider.filtered # SortArticles(provider.articles)
  /\ provider' = [provider EXCEPT !.filtered = SortArticles(provider.articles)]
  /\ UNCHANGED server

\* ------------------------------------------------------------ specification

\* The FeedProvider before it is mounted: useState([]) for articles and tags.
\* ref tells the array held in articles from the one held before it: every
\* setArticles with a new array flips it.
Unmounted ==
  [articles |-> <<>>, tags |-> <<>>, pending |-> "idle", filtered |-> <<>>, ref |-> 0]

\* Empty SavedArticle and ArticleSummary collections, no client.
InitStores ==
  /\ saved = {}
  /\ summaries = {}
  /\ nextObjectId = 1
  /\ provider = Unmounted

InitCommon ==
  /\ feeds = {}
  /\ articles = {}
  /\ now = 0
  /\ nextFeedId = 1
  /\ nextArticleId = 1
  /\ proc = [p \in Procs |-> Idle]
  /\ prev = NoPrev
  /\ InitStores

Init == InitCommon /\ conc = FALSE

InitConc == InitCommon /\ conc = TRUE

\* What parser.parseURL may answer: an item list, or it throws.
ParseResults ==
  {[ok |-> TRUE, items |-> l] : l \in ItemLists} \cup {[ok |-> FALSE, items |-> <<>>]}

\* Ids a request may name: those of stored documents, and 0 for a stale one.
FeedIds == {f._id : f \in feeds} \cup {0}
ArticleIds == {a._id : a \in articles} \cup {0}

Next ==
  \/ \E p \in Procs : Finish(p)
  \/ \E p \in Procs : CanReceive(p) /\ \E u \in Users, url \in FeedUrls, r \in ParseResults :
        createFeed(p, u, url, r)
  \/ \E p \in Procs, u \in Users, id \in FeedIds : deleteFeed(p, u, id)
  \/ \E p \in Procs, u \in Users, id \in FeedIds : refreshStart(p, u, id)
  \/ \E p \in Procs : proc[p].pc = "parse" /\ \E r \in ParseResults : refreshParse(p, r)
  \/ \E p \in Procs, ok \in BOOLEAN : refreshFind(p, ok)
  \/ \E p \in Procs, ok \in BOOLEAN : refreshCreate(p, ok)
  \/ \E p \in Procs, ok \in BOOLEAN : refreshSave(p, ok)
  \/ \E p \in Procs, u \in Users, id \in ArticleIds : markArticleAsRead(p, u, id)
  \/ \E p \in Procs, u \in Users, id \in ArticleIds : markArticleAsUnread(p, u, id)

Spec == Init /\ [][Next]_vars

\* Overlapping requests: subscriptions and refreshes in two slots, of feeds
\* whose items carry the link ConcLink or none.
ConcLink == "l1"

ParseResultsConc ==
  {r \in ParseResults : \A i \in 1..Len(r.items) : r.items[i].link \in {ConcLink, NoLink}}

NextConc ==
  \/ \E p \in Procs : Finish(p)
  \/ \E p \in Procs : CanReceive(p) /\ \E u \in Users, url \in FeedUrls, r \in ParseResultsConc :
        createFeed(p, u, url, r)
  \/ \E p \in Procs, u \in Users, id \in FeedIds : refreshStart(p, u, id)
  \/ \E p \in Procs : proc[p].pc = "parse" /\ \E r \in ParseResultsConc : refreshParse(p, r)
  \/ \E p \in Procs, ok \in BOOLEAN : refreshFind(p, ok)
  \/ \E p \in Procs, ok \in BOOLEAN : refreshCreate(p, ok)
  \/ \E p \in Procs, ok \in BOOLEAN : refreshSave(p, ok)

SpecConc == InitConc /\ [][NextConc]_vars

\* -------------------------------------------------- the new-content probe

\* Longest item list served to the probe.
MaxProbeItems == 6

\* Item lists for the probe: the first item carries any date, the later items
\* carry no date or all the latest one.
RECURSIVE ProbeTails(_, _)
ProbeTails(n, d) ==
  IF n = 0 THEN {<<>>}
  ELSE {<<Item(l, d)>> \o rest : l \in Links \cup {NoLink}, rest \in ProbeTails(n - 1, d)}

ProbeDates == {NoDate, BadDate} \cup (1..MaxTime)

ProbeItemLists ==
  {<<>>} \cup
  {<<Item(l, d)>> \o rest :
     l \in Links \cup {NoLink}, d \in ProbeDates,
     rest \in UNION {ProbeTails(n, e) : n \in 0..(MaxProbeItems - 1), e \in {NoDate, MaxTime}}}

\* The fetches and parses the probe may see; a list matters only when parsed.
ProbeInputs ==
  {[fetch |-> "200", parsed |-> [ok |-> TRUE, items |-> l], lookupOk |-> ok] :
     l \in ProbeItemLists, ok \in BOOLEAN}
  \cup {[fetch |-> "200", parsed |-> [ok |-> FALSE, items |-> <<>>], lookupOk |-> TRUE]}
  \cup {[fetch |-> f, parsed |-> [ok |-> TRUE, items |-> <<>>], lookupOk |-> TRUE] :
          f \in {"304", "status", "error"}}

\* A subscribed "fa" at time 1 when it served the item "l1"; the owner of "fb"
\* subscribed at time 2 when it served "l2".
InitProbe ==
  /\ \E o \in Users :
       /\ feeds = {[_id |-> 1, url |-> "fa", userId |-> "A", lastUpdated |-> 1, unreadCount |-> 1],
                   [_id |-> 2, url |-> "fb", userId |-> o, lastUpdated |-> 2, unreadCount |-> 1]}
       /\ articles = {NewArticle(1, Item("l1", NoDate), [_id |-> 1, url |-> "fa"], "A", 1),
                      NewArticle(2, Item("l2", NoDate), [_id |-> 2, url |-> "fb"], o, 2)}
  /\ now = 2
  /\ nextFeedId = 3
  /\ nextArticleId = 3
  /\ proc = [p \in Procs |-> Idle]
  /\ prev = NoPrev
  /\ conc = FALSE
  /\ InitStores

NextProbe ==
  \/ \E p \in Procs : Finish(p)
  \/ \E p \in Procs : CanReceive(p) /\ \E u \in Users, id \in FeedIds, i \in ProbeInputs :
        checkNewFeedContent(p, u, id, i.fetch, i.parsed, i.lookupOk)

SpecProbe == InitProbe /\ [][NextProbe]_vars

\* ------------------------------------------------- the saved-article index

\* A subscribed "fa" when it served the item "l1"; the owner of "fb"
\* subscribed when it served "l2".  Nothing is saved yet.
InitSavedCommon ==
  /\ \E o \in Users :
       /\ feeds = {[_id |-> 1, url |-> "fa", userId |-> "A", lastUpdated |-> 0, unreadCount |-> 1],
                   [_id |-> 2, url |-> "fb", userId |-> o, lastUpdated |-> 0, unreadCount |-> 1]}
       /\ articles = {NewArticle(1, Item("l1", NoDate), [_id |-> 1, url |-> "fa"], "A", 0),
                      NewArticle(2, Item("l2", NoDate), [_id |-> 2, url |-> "fb"], o, 0)}
  /\ now = 0
  /\ nextFeedId = 3
  /\ nextArticleId = 3
  /\ proc = [p \in Procs |-> Idle]
  /\ prev = NoPrev
  /\ InitStores

InitSaved == InitSavedCommon /\ conc = FALSE

InitSavedConc == InitSavedCommon /\ conc = TRUE

\* One request at a time and a database that answers every toggle.
NextSaved ==
  \/ \E p \in Procs : Finish(p)
  \/ \E p \in Procs, u \in Users, id \in ArticleIds : toggleStart(p, u, id)
  \/ \E p \in Procs : toggleLookup(p, TRUE)
  \/ \E p \in Procs : toggleFlag(p, TRUE)
  \/ \E p \in Procs : toggleIndex(p, TRUE)
  \/ \E p \in Procs, u \in Users, id \in FeedIds : deleteFeed(p, u, id)
  \/ \E p \in Procs : CanReceive(p) /\ \E u \in Users, url \in FeedUrls, r \in ParseResultsConc :
        createFeed(p, u, url, r)
  \/ \E p \in Procs, u \in Users, id \in FeedIds : refreshStart(p, u, id)
  \/ \E p \in Procs : proc[p].pc = "parse" /\ \E r \in ParseResultsConc : refreshParse(p, r)
  \/ \E p \in Procs, ok \in BOOLEAN : refreshFind(p, ok)
  \/ \E p \in Procs, ok \in BOOLEAN : refreshCreate(p, ok)
  \/ \E p \in Procs, ok \in BOOLEAN : refreshSave(p, ok)

SpecSaved == InitSaved /\ [][NextSaved]_vars

\* Overlapping requests on the saved-article index: toggles and deletions.
NextSavedConc ==
  \/ \E p \in Procs : Finish(p)
  \/ \E p \in Procs, u \in Users, id \in ArticleIds : toggleStart(p, u, id)
  \/ \E p \in Procs, ok \in BOOLEAN : toggleLookup(p, ok)
  \/ \E p \in Procs, ok \in BOOLEAN : toggleFlag(p, ok)
  \/ \E p \in Procs, ok \in BOOLEAN : toggleIndex(p, ok)
  \/ \E p \in Procs, u \in Users, id \in FeedIds : deleteFeed(p, u, id)

SpecSavedConc == InitSavedConc /\ [][NextSavedConc]_vars

\* ------------------------------------------------- who writes Feed fields

\* What the probe is served here: at most one item.
FrameProbeInputs == {i \in ProbeInputs : Len(i.parsed.items) <= 1}

\* Every handler that loads or stores a Feed or an Article, one request at a
\* time.
NextFrame ==
  \/ \E p \in Procs : Finish(p)
  \/ \E p \in Procs : CanReceive(p) /\ \E u \in Users, url \in FeedUrls, r \in ParseResultsConc :
        createFeed(p, u, url, r)
  \/ \E p \in Procs, u \in Users, id \in FeedIds : updateFeed(p, u, id)
  \/ \E p \in Procs, u \in Users, id \in FeedIds : deleteFeed(p, u, id)
  \/ \E p \in Procs, u \in Users, id \in FeedIds : refreshStart(p, u, id)
  \/ \E p \in Procs : proc[p].pc = "parse" /\ \E r \in ParseResultsConc : refreshParse(p, r)
  \/ \E p \in Procs : refreshFind(p, TRUE)
  \/ \E p \in Procs : refreshCreate(p, TRUE)
  \/ \E p \in Procs : refreshSave(p, TRUE)
  \/ \E p \in Procs : CanReceive(p) /\ \E u \in Users, id \in FeedIds, i \in FrameProbeInputs :
        checkNewFeedContent(p, u, id, i.fetch, i.parsed, i.lookupOk)
  \/ \E p \in Procs, u \in Users, id \in ArticleIds : markArticleAsRead(p, u, id)
  \/ \E p \in Procs, u \in Users, id \in ArticleIds : markArticleAsUnread(p, u, id)
  \/ \E p \in Procs, u \in Users, id \in ArticleIds : updateArticleTags(p, u, id)
  \/ \E p \in Procs, u \in Users, id \in ArticleIds : toggleStart(p, u, id)
  \/ \E p \in Procs : toggleLookup(p, TRUE)
  \/ \E p \in Procs : toggleFlag(p, TRUE)
  \/ \E p \in Procs : toggleIndex(p, TRUE)

SpecFrame == InitSaved /\ [][NextFrame]_vars

\* --------------------------------------------------------- the summary cache

\* Summary requests, one at a time, next to deletions of feeds.
NextSummary ==
  \/ \E p \in Procs : Finish(p)
  \/ \E p \in Procs, u \in Users, id \in ArticleIds, libOk \in BOOLEAN, dbOk \in BOOLEAN :
        getArticleSummary(p, u, id, libOk, dbOk)
  \/ \E p \in Procs, u \in Users, id \in FeedIds : deleteFeed(p, u, id)

SpecSummary == InitSaved /\ [][NextSummary]_vars

\* ------------------------------------------------------- the relevance scorer

\* A browser at time ClientNow; the server side plays no part.
InitBrowser ==
  /\ feeds = {}
  /\ articles = {}
  /\ now = ClientNow
  /\ nextFeedId = 1
  /\ nextArticleId = 1
  /\ proc = [p \in Procs |-> Idle]
  /\ prev = NoPrev
  /\ conc = FALSE
  /\ saved = {}
  /\ summaries = {}
  /\ nextObjectId = 1

\* Publish dates around the steps of the recency bonus: in the future, now,
\* 12 hours, 1 day, just under and at 3 days, just under and at 7 days, long
\* ago, and unparsable.
ScorerDates ==
  {ClientNow + 3, ClientNow, ClientNow - 1, ClientNow - DayTicks,
   ClientNow - 3 * DayTicks + 1, ClientNow - 3 * DayTicks,
   ClientNow - 7 * DayTicks + 1, ClientNow - 7 * DayTicks, 0, BadDate}

\* The owner's tags in the order of the tag list.
TagOrder == <<"t1", "t2", "t3", "t4", "t5">>

UserTagLists == {SelectSeq(TagOrder, LAMBDA n : n \in S) : S \in SUBSET TagNames}

ScorerArticles ==
  {ClientArticle(1, tags, d, r, sv, NoScore) :
     tags \in (SUBSET TagNames) \cup {NoTags}, d \in ScorerDates,
     r \in BOOLEAN, sv \in BOOLEAN}

InitScorer ==
  /\ InitBrowser
  /\ \E a \in ScorerArticles, userTags \in UserTagLists :
       provider = [Unmounted EXCEPT !.articles = <<a>>, !.tags = userTags,
                                    !.pending = "changed"]

NextScorer == ApplyScorer

SpecScorer == InitScorer /\ [][NextScorer]_vars

\* ----------------------------------------------- the client's working set

\* Most articles a page of the working set holds.
MaxShown == 2

ClientTagNames == {"t1", "t2"}

\* relevanceScore as the server stores it with every new article: 0.5
ServerScore == 50

\* The article with a given id as the server may return it.
ServerArticles(id) ==
  {ClientArticle(id, tags, d, FALSE, FALSE, ServerScore) :
     tags \in {{"t1"}, {"t1", "t2"}}, d \in {ClientNow - 1, ClientNow - 3 * DayTicks}}

\* response.data.articles: up to MaxShown articles
RECURSIVE ServerLists(_)
ServerLists(n) ==
  IF n = 0 THEN {<<>>}
  ELSE ServerLists(n - 1) \cup
       {Append(l, a) : l \in {m \in ServerLists(n - 1) : Len(m) = n - 1}, a \in ServerArticles(n)}

\* A handler has replaced articles or tags: the effect is due.
Changed(state) == [state EXCEPT !.pending = "changed"]

\* setArticles(response.data.articles), as fetchData, fetchFilteredArticles,
\* addFeed and refreshFeed do
setArticles(list) ==
  /\ provider' = Changed([provider EXCEPT !.articles = list, !.ref = 1 - @])
  /\ UNCHANGED server

\* setTags(prev => [...prev, response.data]); the server refuses a name twice
addTag(name) ==
  /\ \A k \in 1..Len(provider.tags) : provider.tags[k] # name
  /\ provider' = Changed([provider EXCEPT !.tags = Append(@, name)])
  /\ UNCHANGED server

\* setTags(prev => prev.filter(tag => tag._id !== id))
removeTag(name) ==
  /\ \E k \in 1..Len(provider.tags) : provider.tags[k] = name
  /\ provider' = Changed([provider EXCEPT !.tags = SelectSeq(@, LAMBDA n : n # name)])
  /\ UNCHANGED server

\* setArticles(prev => prev.map(a => a._id === articleId ? { ...a, isRead: true } : a))
markAsRead(articleId) ==
  /\ \E i \in 1..Len(provider.articles) : provider.articles[i]._id = articleId
  /\ LET prevList == provider.articles
     IN provider' = Changed([provider EXCEPT !.ref = 1 - @, !.articles =
                      [i \in 1..Len(prevList) |->
                         IF prevList[i]._id = articleId
                         THEN [prevList[i] EXCEPT !.isRead = TRUE] ELSE prevList[i]]])
  /\ UNCHANGED server

\* setArticles(prev => prev.map(a => a._id === articleId ? { ...a, isSaved: !a.isSaved } : a))
toggleSaved(articleId) ==
  /\ \E i \in 1..Len(provider.articles) : provider.articles[i]._id = articleId
  /\ LET prevList == provider.articles
     IN provider' = Changed([provider EXCEPT !.ref = 1 - @, !.articles =
                      [i \in 1..Len(prevList) |->
                         IF prevList[i]._id = articleId
                         THEN [prevList[i] EXCEPT !.isSaved = ~prevList[i].isSaved]
                         ELSE prevList[i]]])
  /\ UNCHANGED server

\* useEffect(() => { if (articles.length > 0 && tags.length > 0)
\*   setArticles(prev => calculateRelevanceScores(prev, tags)) }, [tags, articles]):
\* it runs when tags or articles were replaced, also by itself, map giving a
\* new array with every call.
relevanceEffect ==
  /\ provider.pending \in {"changed", "rescored"}
  /\ provider' =
       IF Len(provider.articles) > 0 /\ Len(provider.tags) > 0
       THEN [provider EXCEPT
               !.articles = calculateRelevanceScores(provider.articles, provider.tags, now),
               !.pending = "rescored", !.ref = 1 - @]
       ELSE [provider EXCEPT !.pending = "idle"]
  /\ UNCHANGED server

InitClient == InitBrowser /\ provider = Unmounted

NextClient ==
  \/ \E list \in ServerLists(MaxShown) : setArticles(list)
  \/ \E name \in ClientTagNames : addTag(name)
  \/ \E name \in ClientTagNames : removeTag(name)
  \/ \E id \in 1..MaxShown : markAsRead(id)
  \/ \E id \in 1..MaxShown : toggleSaved(id)
  \/ relevanceEffect

SpecClient == InitClient /\ [][NextClient]_vars

\* The effect alone, after the working set and the tags were replaced once:
\* React runs an effect that is due.
ClientTagLists == {<<>>, <<"t1">>, <<"t2">>, <<"t1", "t2">>, <<"t2", "t1">>}

InitEffect ==
  /\ InitBrowser
  /\ \E list \in ServerLists(MaxShown), userTags \in ClientTagLists :
       provider = Changed([Unmounted EXCEPT !.articles = list, !.tags = userTags])

NextEffect == relevanceEffect

SpecEffect == InitEffect /\ [][NextEffect]_vars /\ WF_vars(relevanceEffect)

\* ------------------------------------------------------- the display order

SortScores == {NoScore, 0, 10, 30, 35, 50, 80, 85, 100}

SortDates == {BadDate, ClientNow - 2, ClientNow - 1, ClientNow}

\* Two articles with any scores and dates, in either order.
InitSort ==
  /\ InitBrowser
  /\ \E sa \in SortScores, sb \in SortScores, da \in SortDates, db \in SortDates :
       provider = [Unmounted EXCEPT
                     !.articles = <<ClientArticle(1, {}, da, FALSE, FALSE, sa),
                                    ClientArticle(2, {}, db, FALSE, FALSE, sb)>>]

NextSort == filteredArticles

SpecSort == InitSort /\ [][NextSort]_vars

\* ------------------------------------------------------------ the normalizer

\* What a text property of an item may hold: nothing, the empty string,
\* whitespace, a word, a word with whitespace around it.
Texts == {Undefined, <<>>, <<Blank>>, <<"x">>, <<Blank, "x", Blank>>}

\* The items served here: every combination of texts without a date, and an
\* item with text and every kind of date.
IngestDates == {NoDate, BadDate, 0}

IngestItems ==
  {RawItem(l, NoDate, title, snippet, content) :
     l \in Links, title \in Texts, snippet \in Texts, content \in Texts}
  \cup {Item(l, d) : l \in Links, d \in IngestDates}

IngestResults == {[ok |-> TRUE, items |-> <<i>>] : i \in IngestItems}

\* A subscribed "fa" at time 1 when it served no item.
InitIngest ==
  /\ feeds = {[_id |-> 1, url |-> "fa", userId |-> "A", lastUpdated |-> 1, unreadCount |-> 0]}
  /\ articles = {}
  /\ now = 1
  /\ nextFeedId = 2
  /\ nextArticleId = 1
  /\ proc = [p \in Procs |-> Idle]
  /\ prev = NoPrev
  /\ conc = FALSE
  /\ InitStores

\* Subscriptions and refreshes of A, one at a time, served one item each.
NextIngest ==
  \/ \E p \in Procs : Finish(p)
  \/ \E p \in Procs : CanReceive(p) /\ \E url \in FeedUrls, r \in IngestResults :
        createFeed(p, "A", url, r)
  \/ \E p \in Procs, id \in FeedIds : refreshStart(p, "A", id)
  \/ \E p \in Procs : proc[p].pc = "parse" /\ \E r \in IngestResults : refreshParse(p, r)
  \/ \E p \in Procs : refreshFind(p, TRUE)
  \/ \E p \in Procs : refreshCreate(p, TRUE)
  \/ \E p \in Procs : refreshSave(p, TRUE)

SpecIngest == InitIngest /\ [][NextIngest]_vars

\* ------------------------------------------------- the probe after a refresh

\* Item lists whose first item may carry a date: an early one or a late one.
AgreeLists ==
  ItemLists \cup
  {<<Item(l, d)>> \o rest : l \in Links \cup {NoLink}, d \in {0, MaxTime},
                            rest \in ListsOfLen(MaxItems - 1) \cup {<<>>}}

AgreeResults ==
  {[ok |-> TRUE, items |-> l] : l \in AgreeLists} \cup {[ok |-> FALSE, items |-> <<>>]}

\* Refreshes and probes of the stored feeds, one request at a time, with a
\* database that answers.
NextAgree ==
  \/ \E p \in Procs : Finish(p)
  \/ \E p \in Procs, u \in Users, id \in FeedIds : refreshStart(p, u, id)
  \/ \E p \in Procs : proc[p].pc = "parse" /\ \E r \in AgreeResults : refreshParse(p, r)
  \/ \E p \in Procs : refreshFind(p, TRUE)
  \/ \E p \in Procs : refreshCreate(p, TRUE)
  \/ \E p \in Procs : refreshSave(p, TRUE)
  \/ \E p \in Procs : CanReceive(p) /\ \E u \in Users, id \in FeedIds, r \in AgreeResults :
        checkNewFeedContent(p, u, id, "200", r, TRUE)

SpecAgree == InitSaved /\ [][NextAgree]_vars

\* ------------------------------------------------------- the unread counter

\* A subscribed "fa" when it served the item "l1", which is unread; requests
\* may overlap.
InitUnread ==
  /\ feeds = {[_id |-> 1, url |-> "fa", userId |-> "A", lastUpdated |-> 0, unreadCount |-> 1]}
  /\ articles = {NewArticle(1, Item("l1", NoDate), [_id |-> 1, url |-> "fa"], "A", 0)}
  /\ now = 0
  /\ nextFeedId = 2
  /\ nextArticleId = 2
  /\ proc = [p \in Procs |-> Idle]
  /\ prev = NoPrev
  /\ conc = TRUE
  /\ InitStores

\* The feed serves items that all carry a link.
LinkedResults ==
  {r \in ParseResults : \A i \in 1..Len(r.items) : r.items[i].link \in Links}

\* Refreshes of A's feed in two slots, and A marking articles read and
\* unread meanwhile; the database answers.
NextUnread ==
  \/ \E p \in Procs : Finish(p)
  \/ \E p \in Procs, id \in FeedIds : refreshStart(p, "A", id)
  \/ \E p \in Procs : proc[p].pc = "parse" /\ \E r \in LinkedResults : refreshParse(p, r)
  \/ \E p \in Procs : refreshFind(p, TRUE)
  \/ \E p \in Procs : refreshCreate(p, TRUE)
  \/ \E p \in Procs : refreshSave(p, TRUE)
  \/ \E p \in Procs, id \in ArticleIds : markArticleAsRead(p, "A", id)
  \/ \E p \in Procs, id \in ArticleIds : markArticleAsUnread(p, "A", id)

SpecUnread == InitUnread /\ [][NextUnread]_vars

\* Three articles with any of these scores and dates, in any order; every
\* date is a valid one.
OrderScores == {0, 20, 45, 70}

OrderDates == {ClientNow - 2, ClientNow - 1, ClientNow}

InitOrder ==
  /\ InitBrowser
  /\ \E sa \in OrderScores, sb \in OrderScores, sc \in OrderScores,
        da \in OrderDates, db \in OrderDates, dc \in OrderDates :
       provider = [Unmounted EXCEPT
                     !.articles = <<ClientArticle(1, {}, da, FALSE, FALSE, sa),
                                    ClientArticle(2, {}, db, FALSE, FALSE, sb),
                                    ClientArticle(3, {}, dc, FALSE, FALSE, sc)>>]

NextOrder == filteredArticles

SpecOrder == InitOrder /\ [][NextOrder]_vars

\* ----------------------------------------------------- the local summarizer

\* Most sentences a description is split into.
MaxSentences == 7

\* Sentences of 50 or 100 characters whose text adds 0 or 3 points, named by
\* their position.
RECURSIVE SentenceLists(_)
SentenceLists(n) ==
  IF n = 0 THEN {<<>>}
  ELSE {Append(l, Sentence(n, length, points)) :
          l \in SentenceLists(n - 1), length \in {50, 100}, points \in {0, 3}}

\* A summary request for A's article whose library call has failed; the
\* local summarizer has split the description into sentences.
InitKeyPoints ==
  /\ feeds = {[_id |-> 1, url |-> "fa", userId |-> "A", lastUpdated |-> 0, unreadCount |-> 1]}
  /\ articles = {NewArticle(1, Item("l2", NoDate), [_id |-> 1, url |-> "fa"], "A", 0)}
  /\ now = 1
  /\ nextFeedId = 2
  /\ nextArticleId = 2
  /\ prev = NoPrev
  /\ conc = FALSE
  /\ InitStores
  /\ \E n \in 0..MaxSentences : \E list \in SentenceLists(n) :
       proc = [p \in Procs |->
                 IF p = 1
                 THEN [Call("getArticleSummary", "A", 1) EXCEPT
                         !.pc = "keypoints", !.library = "fails", !.invoked = TRUE,
                         !.sentences = list]
                 ELSE Idle]

NextKeyPoints == \E p \in Procs : localKeyPoints(p)

SpecKeyPoints == InitKeyPoints /\ [][NextKeyPoints]_vars

\* ---------------------------------------------------------------- properties

Done(p, op) == proc[p].pc = "done" /\ proc[p].op = op

\* The stored feed the request of slot p is about.
FeedOf(p) == {f \in feeds : f._id = proc[p].feedId}
FeedBefore(p) == {f \in proc[p].pre.feeds : f._id = proc[p].feedId}

\* C1 - Dedup invariant: no two persisted Articles have the same (userId, url)
\* pair, whatever sequence of createFeed, refreshFeed, deleteFeed and article
\* operations has run.
C1_DedupInvariant ==
  \A a, b \in articles : (a.userId = b.userId /\ a.url = b.url) => a = b

\* A subscription whose item list repeats a link was cut short by the index,
\* after its first article was stored.
C1_Witness ==
  \E p \in Procs :
    /\ Done(p, "createFeed") /\ proc[p].fault = "E11000"
    /\ proc[p].created # {}
    /\ \E i, j \in 1..Len(proc[p].items) :
         i # j /\ ArticleUrl(proc[p].items[i], proc[p].feed.url)
                    = ArticleUrl(proc[p].items[j], proc[p].feed.url)

\* C2 - Idempotence of ingest: a refreshFeed that directly follows a successful
\* refreshFeed of the same feed and is served the same items (with or without
\* links) succeeds, creates no Article and leaves unreadCount as it was.
C2_IdempotentIngest ==
  \A p \in Procs :
    ( /\ Done(p, "refreshFeed")
      /\ prev.op = "refreshFeed" /\ prev.feedId = proc[p].feedId
      /\ proc[p].fault \notin {"parse", "db"}
      /\ prev.items = proc[p].items )
    => /\ proc[p].status = 200
       /\ proc[p].created = {}
       /\ \A f \in FeedOf(p) : \A g \in FeedBefore(p) : f.unreadCount = g.unreadCount

\* C3 - Two overlapping refreshFeed calls of one feed never both insert an
\* article for the same url, also when both passed the existence check.
C3_NoDoubleInsert ==
  \A p, q \in Procs :
    ( /\ p # q
      /\ proc[p].op = "refreshFeed" /\ proc[q].op = "refreshFeed"
      /\ proc[p].feedId = proc[q].feedId )
    => \A a, b \in articles :
         (a._id \in proc[p].created /\ b._id \in proc[q].created) => a.url # b.url

\* Both calls found no article for a link, one stored it and the index
\* rejected the insert of the other.
C3_Witness ==
  \E p, q \in Procs :
    /\ p # q
    /\ proc[p].op = "refreshFeed" /\ Done(q, "refreshFeed")
    /\ proc[p].feedId = proc[q].feedId
    /\ proc[q].fault = "E11000"
    /\ \E a \in articles :
         /\ a._id \in proc[p].created
         /\ a.url \in Links
         /\ a.url \in proc[p].passed \cap proc[q].passed
         /\ a.url = ArticleUrl(proc[q].items[proc[q].idx], proc[q].feed.url)

\* C4 - After a successful refreshFeed the persisted Feed has lastUpdated = the
\* time of the call, unreadCount = previous value + number of created Articles
\* and hasNewContent = false, and the answer carries the updated Feed.
C4_RefreshPostcondition ==
  \A p \in Procs :
    (Done(p, "refreshFeed") /\ proc[p].status = 200)
    => \E f \in FeedOf(p) :
         /\ f.lastUpdated = now
         /\ \E g \in FeedBefore(p) :
              f.unreadCount = g.unreadCount + Cardinality(proc[p].created)
         /\ "hasNewContent" \in DOMAIN f
         /\ f.hasNewContent = FALSE
         /\ proc[p].feed.unreadCount = f.unreadCount

\* C5 - When the parser fails in refreshFeed the call answers with an error and
\* neither the Feed collection nor the Article collection has changed.
C5_ParseFailureNoMutation ==
  \A p \in Procs :
    (Done(p, "refreshFeed") /\ proc[p].fault = "parse")
    => /\ proc[p].status = 400
       /\ feeds = proc[p].pre.feeds
       /\ articles = proc[p].pre.articles

\* A refresh of a feed with stored articles whose parse failed has answered.
C5_Witness ==
  \E p \in Procs :
    /\ Done(p, "refreshFeed") /\ proc[p].fault = "parse"
    /\ \E a \in articles : a.feedId = proc[p].feedId

\* C6 - A refreshFeed that fails after parsing answers with an error and leaves
\* Feed.unreadCount exactly as it was before the call.
C6_FailureKeepsUnreadCount ==
  \A p \in Procs :
    (Done(p, "refreshFeed") /\ proc[p].fault \in {"db", "E11000", "gone"})
    => /\ proc[p].status >= 400
       /\ \A f \in FeedOf(p) : \E g \in FeedBefore(p) : f.unreadCount = g.unreadCount

\* The call failed on a later item, after it had already stored an article.
C6_Witness ==
  \E p \in Procs :
    /\ Done(p, "refreshFeed") /\ proc[p].fault \in {"db", "E11000"}
    /\ proc[p].created # {}
    /\ FeedOf(p) # {}

\* C7 - refreshFeed never modifies an Article that was already persisted: every
\* Article stored before the call is stored unchanged after it.
C7_ExistingArticlesUntouched ==
  \A p \in Procs :
    Done(p, "refreshFeed") => \A a \in proc[p].pre.articles : a \in articles

\* A successful refresh met an item whose link matches an article the owner
\* had marked read at an earlier time.
C7_Witness ==
  \E p \in Procs :
    /\ Done(p, "refreshFeed") /\ proc[p].status = 200
    /\ \E a \in proc[p].pre.articles, i \in 1..Len(proc[p].items) :
         /\ a.userId = proc[p].user /\ a.url = proc[p].items[i].link
         /\ a.isRead /\ a.publishDate < now

\* C8 - Uniqueness is per owner: an ingest (createFeed or refreshFeed) by B of
\* a feed with an item whose link another owner already stores succeeds and
\* gives B an Article of its own for that link.
C8_PerOwnerUniqueness ==
  \A p \in Procs :
    ( /\ proc[p].pc = "done" /\ proc[p].op \in {"createFeed", "refreshFeed"}
      /\ proc[p].fault \in {"none", "E11000"} )
    => \A i \in 1..Len(proc[p].items) :
         ( /\ proc[p].items[i].link \in Links
           /\ \E a \in proc[p].pre.articles :
                a.url = proc[p].items[i].link /\ a.userId # proc[p].user )
         => /\ proc[p].status < 400
            /\ \E b \in articles :
                 b.url = proc[p].items[i].link /\ b.userId = proc[p].user

\* C9 - Without an error checkNewFeedContent answers false on 304, and
\* otherwise true exactly when the first item is dated strictly after
\* Feed.lastUpdated or one of the first 5 items has a link with no Article of
\* this owner and feed.
C9_ProbeResult ==
  \A p \in Procs :
    (Done(p, "checkNewFeedContent") /\ proc[p].fault = "none")
    => LET c == proc[p]
           newer == /\ Len(c.items) > 0
                    /\ c.items[1].pubDate \in 0..MaxTime
                    /\ c.items[1].pubDate > c.feed.lastUpdated
           unseen == \E i \in 1..Len(c.items) :
                       /\ i <= 5
                       /\ c.items[i].link # NoLink
                       /\ ~ \E a \in articles :
                              /\ a.url = c.items[i].link
                              /\ a.userId = c.user /\ a.feedId = c.feedId
       IN c.reply = IF c.fetch = "304" THEN "false"
                    ELSE IF newer \/ unseen THEN "true" ELSE "false"

\* The probe answered false for six items of which only the sixth is unseen,
\* the first being dated exactly at the last update.
C9_Witness ==
  \E p \in Procs :
    /\ Done(p, "checkNewFeedContent") /\ proc[p].fault = "none"
    /\ proc[p].fetch = "200" /\ proc[p].reply = "false"
    /\ Len(proc[p].items) = 6
    /\ proc[p].items[1].pubDate = proc[p].feed.lastUpdated
    /\ ArticleFindInFeed(proc[p].items[6].link, proc[p].feedId, proc[p].user) = {}
    /\ proc[p].items[6].link # NoLink

\* C10 - Fail-open probe: any error while probing an existing feed of the
\* caller makes checkNewFeedContent answer hasNewContent = true.
C10_ProbeFailsOpen ==
  \A p \in Procs :
    (Done(p, "checkNewFeedContent") /\ proc[p].fault # "none")
    => proc[p].status = 200 /\ proc[p].reply = "true"

\* The article lookup failed for a list of several items whose first item
\* has a stored article.
C10_Witness ==
  \E p \in Procs :
    /\ Done(p, "checkNewFeedContent") /\ proc[p].fault = "db"
    /\ Len(proc[p].items) >= 2
    /\ ArticleFindInFeed(proc[p].items[1].link, proc[p].feedId, proc[p].user) # {}

\* C11 - Saved-index invariant: between requests a SavedArticle row
\* (userId, articleId) exists if and only if that Article exists for that user
\* with isSaved = true, and no pair has two rows.
C11_SavedIndexInvariant ==
  (\A p \in Procs : proc[p].pc = "idle")
  => /\ \A s \in saved :
          \E a \in articles : a._id = s.articleId /\ a.userId = s.userId /\ a.isSaved
     /\ \A a \in articles : a.isSaved => SavedFindOne(a._id, a.userId) # {}
     /\ \A s, t \in saved :
          (s.articleId = t.articleId /\ s.userId = t.userId) => s = t

\* C12 - A successful toggleSavedArticle that directly follows a successful
\* toggleSavedArticle of the same article, which was unsaved and had no row,
\* leaves isSaved = false and no SavedArticle row for the pair.
C12_SaveThenUnsave ==
  \A p \in Procs :
    ( /\ Done(p, "toggleSavedArticle") /\ proc[p].status = 200
      /\ prev.op = "toggleSavedArticle" /\ prev.articleId = proc[p].article._id
      /\ ~prev.wasSaved /\ ~prev.hadRow )
    => /\ \A a \in articles : a._id = proc[p].article._id => ~a.isSaved
       /\ SavedFindOne(proc[p].article._id, proc[p].user) = {}

\* The second toggle of a stored article has answered; the first one had
\* created the row that the second one found.
C12_Witness ==
  \E p \in Procs :
    /\ Done(p, "toggleSavedArticle") /\ proc[p].status = 200
    /\ prev.op = "toggleSavedArticle" /\ prev.articleId = proc[p].article._id
    /\ ~prev.wasSaved /\ ~prev.hadRow
    /\ proc[p].existing # {}
    /\ \E a \in articles : a._id = proc[p].article._id

\* C13 - Once all toggleSavedArticle calls have finished, also overlapping
\* ones and ones that failed between the two writes, Article.isSaved agrees
\* with the existence of the SavedArticle row.
C13_ToggleAtomic ==
  (\A p \in Procs : proc[p].pc \in {"idle", "done"})
  => \A a \in articles : a.isSaved <=> SavedFindOne(a._id, a.userId) # {}

\* The ArticleSummary rows of the request's (userId, articleId) at its start.
SummaryBefore(p) ==
  {r \in proc[p].pre.summaries :
     r.articleId = proc[p].article._id /\ r.userId = proc[p].user}

\* C14 - Summary cache: a summary request invokes the summarizer only when no
\* ArticleSummary row exists for (userId, articleId); when a row exists the
\* request answers its text, invokes nothing and changes no row; and no pair
\* ever has two rows.
C14_SummaryCache ==
  /\ \A r, t \in summaries : (r.articleId = t.articleId /\ r.userId = t.userId) => r = t
  /\ \A p \in Procs :
       Done(p, "getArticleSummary")
       => /\ proc[p].invoked => SummaryBefore(p) = {}
          /\ SummaryBefore(p) # {}
             => /\ proc[p].status = 200
                /\ ~proc[p].invoked
                /\ \A r \in SummaryBefore(p) : proc[p].reply = r.summary
                /\ summaries = proc[p].pre.summaries

\* A later request for a long article was served the stored text at a time
\* when the library fails, so that a new summary would have read differently.
C14_Witness ==
  \E p \in Procs :
    /\ Done(p, "getArticleSummary")
    /\ SummaryBefore(p) # {}
    /\ proc[p].library = "fails"
    /\ DescriptionOf(proc[p].article) = "long"
    /\ proc[p].reply = "enhanced"

\* C15 - When the summarizer library throws, the request for an existing
\* article is answered with the text of the local summarizer and not with an
\* error, provided the summary can be stored.
C15_SummarizerFallback ==
  \A p \in Procs :
    ( /\ Done(p, "getArticleSummary")
      /\ proc[p].invoked /\ proc[p].library = "fails"
      /\ proc[p].fault \notin {"db", "E11000"} )
    => /\ proc[p].status = 200
       /\ proc[p].reply = generateLocalSummary(DescriptionOf(proc[p].article))
       /\ \E r \in summaries :
            /\ r.articleId = proc[p].article._id /\ r.userId = proc[p].user
            /\ r.summary = proc[p].reply

\* The library threw on a long description and the request answered the
\* local summary.
C15_Witness ==
  \E p \in Procs :
    /\ Done(p, "getArticleSummary")
    /\ proc[p].invoked /\ proc[p].library = "fails"
    /\ DescriptionOf(proc[p].article) = "long"
    /\ proc[p].status = 200 /\ proc[p].reply = "local"

\* C16 - Scorer bounds: every score that calculateRelevanceScores produces,
\* for any tags, publish date (also a future one) and read/saved flags, lies
\* between 0 and 1.
C16_ScoreBounds ==
  \A i \in 1..Len(provider.articles) :
    provider.articles[i].relevanceScore # NoScore
    => /\ provider.articles[i].relevanceScore >= 0
       /\ provider.articles[i].relevanceScore <= 100

\* A saved article of the last half day that carries all five owner tags was
\* scored: the sum 1.65 is cut to 1.
C16_Witness ==
  /\ provider.pending = "rescored"
  /\ Len(provider.tags) = 5
  /\ \E i \in 1..Len(provider.articles) :
       /\ provider.articles[i].tags = TagNames
       /\ provider.articles[i].publishDate = ClientNow - 1
       /\ provider.articles[i].isSaved /\ ~provider.articles[i].isRead
       /\ provider.articles[i].relevanceScore = 100

\* The owner tags whose name is among the article's tags.
MatchingTags(a, userTags) ==
  {n \in {userTags[k] : k \in 1..Len(userTags)} : a.tags # NoTags /\ n \in a.tags}

\* The recency term as the claim gives it, by the age in ticks.
ClaimedRecency(a, t) ==
  IF a.publishDate = BadDate THEN 0
  ELSE IF t - a.publishDate < DayTicks THEN 30
  ELSE IF t - a.publishDate < 3 * DayTicks THEN 20
  ELSE IF t - a.publishDate < 7 * DayTicks THEN 10
  ELSE 0

ClaimedRaw(a, userTags, t) ==
  25 * Cardinality(MatchingTags(a, userTags)) + ClaimedRecency(a, t)
  - (IF a.isRead THEN 20 ELSE 0) + (IF a.isSaved THEN 10 ELSE 0)

\* C17 - Scorer formula: score = clamp(0.25 * matching owner tags + recency
\* - 0.20 if read + 0.10 if saved, 0, 1) with recency 0.30 / 0.20 / 0.10 / 0
\* for an age below 1 / 3 / 7 whole days / more; two matching tags at 12 hours,
\* unread and unsaved, give 0.8, and 0.6 when read.
C17_ScoreFormula ==
  \A i \in 1..Len(provider.articles) :
    LET a == provider.articles[i]
        raw == ClaimedRaw(a, provider.tags, now)
    IN a.relevanceScore # NoScore
       => /\ a.relevanceScore = (IF raw < 0 THEN 0 ELSE IF raw > 100 THEN 100 ELSE raw)
          /\ ( /\ Cardinality(MatchingTags(a, provider.tags)) = 2
               /\ a.publishDate = now - 1 /\ ~a.isSaved )
             => a.relevanceScore = (IF a.isRead THEN 60 ELSE 80)

\* The example of the claim was scored: two matching tags, 12 hours old,
\* read, not saved.
C17_Witness ==
  /\ provider.pending = "rescored"
  /\ \E i \in 1..Len(provider.articles) :
       LET a == provider.articles[i]
       IN /\ Cardinality(MatchingTags(a, provider.tags)) = 2
          /\ a.publishDate = now - 1 /\ a.isRead /\ ~a.isSaved
          /\ a.relevanceScore = 60

\* C18 - Ordering tie-break: of two articles whose scores differ by at most
\* 0.3 the one published later is shown first, whichever score is higher;
\* when the scores differ by more the higher score is shown first.
C18_TieBreak ==
  (Len(provider.filtered) = 2)
  => LET x == provider.filtered[1]
         y == provider.filtered[2]
         gap == Abs(ScoreOrZero(x) - ScoreOrZero(y))
     IN /\ (gap <= 30 /\ x.publishDate # BadDate /\ y.publishDate # BadDate)
           => x.publishDate >= y.publishDate
        /\ gap > 30 => ScoreOrZero(x) > ScoreOrZero(y)

\* Scores 0.80 and 0.85: the article with the lower score is shown first
\* because it was published later.
C18_Witness ==
  /\ Len(provider.filtered) = 2
  /\ provider.filtered[1].relevanceScore = 80
  /\ provider.filtered[2].relevanceScore = 85
  /\ provider.filtered[1].publishDate > provider.filtered[2].publishDate
  /\ provider.filtered[2].publishDate # BadDate

\* C19 - Scores are never stale: once the effect has run after a change of
\* the owner tags (also the removal of the last tag) or of the working set,
\* every article's relevanceScore is the scorer's result for the article and
\* the current tags.
C19_ScoresNeverStale ==
  provider.pending # "changed"
  => \A i \in 1..Len(provider.articles) :
       provider.articles[i].relevanceScore
         = RelevanceScore(provider.articles[i], provider.tags, now)

\* This step is the feed.save() of a refreshFeed of feed id.
IsRefreshSave(id) ==
  \E p \in Procs :
    proc[p].op = "refreshFeed" /\ proc[p].pc = "save" /\ proc[p].feedId = id /\ proc'[p].pc = "done"

\* This step marks an article of feed id read or unread and moves the
\* counter by d.
IsMarkStep(id, d) ==
  \E a \in articles, b \in articles' :
    /\ a._id = b._id /\ a.feedId = id
    /\ a.isRead # b.isRead
    /\ d = (IF b.isRead THEN -1 ELSE 1)
    /\ UNCHANGED proc

\* C20 (as claimed) - lastUpdated, unreadCount and hasNewContent of a stored
\* Feed are changed only by the ingestion operations: by no step other than
\* the save of a refreshFeed.
C20_OnlyIngestionWritesFeed ==
  [][\A f \in feeds, g \in feeds' :
       (f._id = g._id /\ (f.lastUpdated # g.lastUpdated \/ f.unreadCount # g.unreadCount))
       => IsRefreshSave(f._id)]_vars

\* C20 (amended) - lastUpdated of a stored Feed is changed only by the save
\* of a refreshFeed; unreadCount only by that save and, by one, by
\* markArticleAsRead and markArticleAsUnread of an article of the feed; no
\* stored Feed ever has a hasNewContent field.
C20_FeedFrame ==
  [][/\ \A f \in feeds, g \in feeds' :
          f._id = g._id
          => /\ f.lastUpdated # g.lastUpdated => IsRefreshSave(f._id)
             /\ f.unreadCount # g.unreadCount
                => IsRefreshSave(f._id) \/ IsMarkStep(f._id, g.unreadCount - f.unreadCount)
     /\ \A g \in feeds' : "hasNewContent" \notin DOMAIN g]_vars

\* A toggleSavedArticle has answered for an article that was marked read
\* before: the counter of its feed went down and the toggle left the feed
\* as it was.
C20_Witness ==
  \E p \in Procs :
    /\ Done(p, "toggleSavedArticle") /\ proc[p].status = 200
    /\ proc[p].article.isRead
    /\ FeedOf(p) # {} /\ FeedOf(p) = FeedBefore(p)
    /\ \A f \in FeedOf(p) : f.unreadCount = 0
\* C21 - Cascade delete: a deleteFeed by the owner of a stored feed leaves no
\* Feed with that id and no Article with that feedId, and every Feed and every
\* Article of another feed is stored unchanged.
C21_CascadeDelete ==
  [][\A p \in Procs, u \in Users, id \in FeedIds :
       (deleteFeed(p, u, id) /\ FeedFindOne(id, u) # {})
       => /\ \A f \in feeds' : f._id # id
          /\ \A a \in articles' : a.feedId # id
          /\ feeds' = {f \in feeds : f._id # id}
          /\ articles' = {a \in articles : a.feedId # id}]_vars

\* Feed 1 and its article are gone after a deletion, while feed 2 and its
\* article are stored as before.
C21_Witness ==
  /\ \A f \in feeds : f._id # 1
  /\ \A a \in articles : a.feedId # 1 /\ a._id # 1
  /\ \E f \in feeds : f._id = 2 /\ f.unreadCount = 1
  /\ \E a \in articles : a._id = 2 /\ a.feedId = 2
  /\ nextArticleId = 3

\* C22 - Normalizer description guarantee: whatever title, contentSnippet and
\* content of an item are absent, empty or whitespace, the document built
\* from it is never rejected for its description, and every stored Article
\* has a description that is not empty and neither starts nor ends with
\* whitespace.
C22_DescriptionGuarantee ==
  /\ \A a \in articles :
       /\ a.description # <<>>
       /\ Head(a.description) # Blank
       /\ a.description[Len(a.description)] # Blank
  /\ \A p \in Procs : "description" \notin proc[p].invalid
  /\ \A p \in Procs :
       (proc[p].pc = "done" /\ proc[p].op \in {"createFeed", "refreshFeed"})
       => \A a \in articles :
            a._id \in proc[p].created
            => \E i \in 1..Len(proc[p].items) :
                 LET item == proc[p].items[i]
                     text == OrElse(item.contentSnippet, item.content)
                 IN /\ a.url = item.link
                    /\ a.description =
                         (IF Falsy(text) \/ Trim(text) = <<>>
                          THEN (IF Falsy(item.title) THEN NoDescription
                                ELSE Trim(ArticleAbout \o item.title))
                          ELSE Trim(text))

\* A refresh stored an item whose snippet is whitespace, whose content is
\* absent and whose title has whitespace around it: the description is made
\* from the title and trimmed.
C22_Witness ==
  \E p \in Procs :
    /\ Done(p, "refreshFeed") /\ proc[p].status = 200
    /\ proc[p].items[1].contentSnippet = <<Blank>>
    /\ proc[p].items[1].content = Undefined
    /\ proc[p].items[1].title = <<Blank, "x", Blank>>
    /\ \E a \in articles :
         /\ a._id \in proc[p].created
         /\ a.description = <<"Article", Blank, "about", Blank, Blank, "x">>

\* C29 - Date normalization: an ingest (createFeed or refreshFeed) of items
\* whose publish date is absent or unparsable succeeds, and every such item
\* that was not stored before is stored with publishDate = the time of the
\* ingest; an unparsable date never aborts the ingest.
C29_DateNormalization ==
  \A p \in Procs :
    ( /\ proc[p].pc = "done" /\ proc[p].op \in {"createFeed", "refreshFeed"}
      /\ proc[p].fault \in {"none", "validation"}
      /\ proc[p].invalid \subseteq {"publishDate"} )
    => /\ proc[p].status < 400
       /\ \A i \in 1..Len(proc[p].items) :
            LET item == proc[p].items[i]
            IN ( /\ item.pubDate \in {NoDate, BadDate}
                 /\ ArticleFindOne(proc[p].pre.articles, item.link, proc[p].user) = {} )
               => \E a \in articles :
                    /\ a._id \in proc[p].created
                    /\ a.url = ArticleUrl(item, proc[p].feed.url)
                    /\ a.publishDate = now

\* C23 - Probe agrees with ingest: a checkNewFeedContent that directly follows
\* a successful refreshFeed of the same feed and is served the same items,
\* the first of them not dated after the refresh, answers false - also when
\* an item's link is stored as an Article of another feed of the owner, and
\* when items have no link.
C23_ProbeAgreesWithIngest ==
  \A p \in Procs :
    ( /\ Done(p, "checkNewFeedContent") /\ proc[p].fault = "none"
      /\ prev.op = "refreshFeed" /\ prev.feedId = proc[p].feedId
      /\ proc[p].items = prev.items
      /\ Len(proc[p].items) > 0
         => ~ItemDateIsNewer(proc[p].items[1], proc[p].feed.lastUpdated) )
    => proc[p].reply = "false"

\* C24 - Unread counter consistency: whenever every call made so far has
\* completed, with success or with an error, every Feed's unreadCount is at
\* least 0 and equals the number of stored Articles of the feed that are
\* unread.
C24_UnreadCounterConsistent ==
  (\A p \in Procs : proc[p].pc \in {"idle", "done"})
  => \A f \in feeds :
       /\ f.unreadCount >= 0
       /\ f.unreadCount = Cardinality({a \in articles : a.feedId = f._id /\ ~a.isRead})

\* C25 - No lost unreadCount update: once no call is in flight, also after a
\* markArticleAsRead, markArticleAsUnread or second refreshFeed completed
\* between the load and the save of a refreshFeed of the feed, unreadCount is
\* the initial value 1 + the Articles created by the refreshes - the
\* Articles that were marked read and not unread again.
C25_NoLostUpdate ==
  (\A p \in Procs : proc[p].pc \in {"idle", "done"})
  => \A f \in feeds :
       LET created == {a \in articles : a.feedId = f._id /\ a._id > 1}
           read == {a \in articles : a.feedId = f._id /\ a.isRead}
       IN f.unreadCount = 1 + Cardinality(created) - Cardinality(read)

\* C26 - Subscribe is all-or-nothing: when createFeed answers with an error
\* (the feed is subscribed already, cannot be parsed, or the insert of the
\* initial Articles fails), the Feed collection and the Article collection
\* are as they were before the call.
C26_SubscribeAllOrNothing ==
  \A p \in Procs :
    (Done(p, "createFeed") /\ proc[p].status >= 400)
    => /\ feeds = proc[p].pre.feeds
       /\ articles = proc[p].pre.articles

\* C27 - Score recomputation quiesces: after a change of the working set or
\* of the tags, with an article and a tag present, the effect that recomputes
\* the scores stops after finitely many runs.
C27_EffectQuiesces ==
  (Len(provider.articles) > 0 /\ Len(provider.tags) > 0 /\ provider.pending = "changed")
    ~> (provider.pending = "idle")

\* The orders in which a list of three may arrive.
Arrangements(list) ==
  {<<list[i], list[j], list[k]>> : i, j, k \in 1..3} \ {l \in {<<list[i], list[j], list[k]>> : i, j, k \in 1..3} :
       l[1] = l[2] \/ l[2] = l[3] \/ l[1] = l[3]}

\* C28 - The display comparator is a consistent ordering: of the articles
\* shown, if a is ordered before b and b before c then a is ordered before c,
\* and when no two of them compare as equal the displayed order is the same
\* for every order in which they arrive.
C28_ConsistentOrdering ==
  (Len(provider.filtered) = 3)
  => /\ \A i, j, k \in 1..3 :
          LET a == provider.articles[i]
              b == provider.articles[j]
              c == provider.articles[k]
          IN (CompareFn(a, b) < 0 /\ CompareFn(b, c) < 0) => CompareFn(a, c) < 0
     /\ (\A i, j \in 1..3 :
           i # j => CompareFn(provider.articles[i], provider.articles[j]) # 0)
        => \A l \in Arrangements(provider.articles) : SortArticles(l) = provider.filtered

\* The score of a sentence at its place in the list.
ScoreAt(list, i) ==
  PositionScore(i - 1, Len(list)) + LengthScore(list[i].length) + list[i].points

RECURSIVE TotalScore(_, _)
TotalScore(list, places) ==
  IF places = {} THEN 0
  ELSE LET i == CHOOSE j \in places : TRUE
       IN ScoreAt(list, i) + TotalScore(list, places \ {i})

\* C30 - Key-point selection: of more than 4 sentences the local summarizer
\* lists exactly min(5, number of sentences); they are sentences of maximal
\* total score and they are listed in document order; of 4 or fewer
\* sentences all are listed in document order.
C30_KeyPointSelection ==
  \A p \in Procs :
    (Done(p, "getArticleSummary") /\ proc[p].library = "fails" /\ proc[p].status = 200
       /\ proc[p].fault = "none" /\ proc[p].reply = "none")
    => LET list == proc[p].sentences
           out == proc[p].keyPoints
           places == {out[k].text : k \in 1..Len(out)}
       IN IF Len(list) <= 4 THEN out = list
          ELSE /\ Len(out) = (IF KeyPoints < Len(list) THEN KeyPoints ELSE Len(list))
               /\ \A k \in 1..Len(out) : out[k] = list[out[k].text]
               /\ \A k \in 1..(Len(out) - 1) : out[k].text < out[k + 1].text
               /\ \A other \in SUBSET (1..Len(list)) :
                    Cardinality(other) = Len(out)
                    => TotalScore(list, other) <= TotalScore(list, places)

\* Of seven sentences five were listed: the second and the fourth were left
\* out, and the sixth, which scores higher than the third, is listed after it.
C30_Witness ==
  \E p \in Procs :
    /\ Done(p, "getArticleSummary") /\ Len(proc[p].sentences) = 7
    /\ Len(proc[p].keyPoints) = 5
    /\ [k \in 1..5 |-> proc[p].keyPoints[k].text] = <<1, 3, 5, 6, 7>>
    /\ ScoreAt(proc[p].sentences, 6) > ScoreAt(proc[p].sentences, 3)
====
